---------------------------- MODULE Spec2Model ----------------------------
(***************************************************************************)
(* A model of the compilation pipeline of code-analysis-tool:              *)
(*   tokenize (src/src/utils/lexer.ts), Parser (src/src/utils/parser.ts),  *)
(*   SemanticAnalyzer (src/src/utils/semanticAnalyzer.ts) and              *)
(*   CodeGenerator (src/unnamed/part_003).                                 *)
(* Text is modelled by TLA+ strings; s[i] of the source (0-based) is       *)
(* charAt(s, i).  An absent optional field is NoValue / NoPosition and a   *)
(* null node is Null.                                                      *)
(***************************************************************************)
EXTENDS Integers, Sequences, FiniteSets, TLC

VARIABLES
  tokens,        \* Parser.tokens
  current,       \* Parser.current
  program,       \* children of the Program node parseProgram is building
  parseResult,   \* the node returned by Parser.parse (Null before the return)
  steps,         \* number of iterations the loop of parseProgram has run
  source,        \* the source text being compiled
  ast,           \* the AST handed to analyze / generate: parse(tokenize(source))
  analyzer,      \* the fields of the SemanticAnalyzer instance
  anChild,       \* number of children of the Program node analyze has processed
  anPhase,       \* "idle", "running" (inside analyze) or "done" (analyze returned)
  anResult,      \* the { symbolTable, errors } analyze returned
  now,           \* the last value Date.now() returned
  generator,     \* the fields of the CodeGenerator instance
  genChild,      \* number of children of the Program node generate has processed
  genPhase,      \* "idle", "running" (inside generate) or "done" (generate returned)
  genResult,     \* the instruction list the last completed generate returned
  genCalls,      \* number of calls of generate made on the instance
  pc,            \* App: the await at which runCompilation is suspended
  stages,        \* App: the stages state, four { active, completed } flags
  isCompiling,   \* App: the isCompiling state
  ui,            \* App: the tokens, ast, symbolTable, semanticErrors and
                 \*      intermediateCode states
  run,           \* App: the locals of the runCompilation call in flight
  anCalls,       \* the calls of analyze made on the instance: AST and value returned
  lexer,         \* the locals of the tokenize call in flight
  lexCalls,      \* the calls of tokenize made: code and token list returned
  typeCalls,     \* the calls of isCompatible made: the two types and the value
  heap,          \* the arrays allocated by generate and analyze, by address
  handles,       \* the addresses the calls of generate and analyze returned
  runs           \* App: the runCompilation calls in flight when several may be

parserVars == <<tokens, current, program, parseResult, steps>>

inputVars == <<source, ast>>

analyzerVars == <<analyzer, anChild, anPhase, anResult, now, anCalls>>

generatorVars == <<generator, genChild, genPhase, genResult, genCalls>>

appVars == <<pc, stages, isCompiling, ui, run>>

lexerVars == <<lexer, lexCalls>>

auxVars == <<typeCalls, heap, handles, runs>>

vars == <<tokens, current, program, parseResult, steps, source, ast,
          analyzer, anChild, anPhase, anResult, now,
          generator, genChild, genPhase, genResult, genCalls,
          pc, stages, isCompiling, ui, run, anCalls, lexer, lexCalls,
          typeCalls, heap, handles, runs>>

(***************************************************************************)
(* Bounds of the model.                                                    *)
(***************************************************************************)
MaxTokens == 3

MaxLines == 3

MaxGenLines == 2

MaxClock == 2

MaxGenerateCalls == 2

MaxFragments == 3

MaxTokenizeCalls == 3

MaxAnalyzeCalls == 3

MaxProbedStatements == 2

(***************************************************************************)
(* Values standing for JavaScript's undefined and null.                    *)
(***************************************************************************)
NoValue == "<undefined>"

NoPosition == [line |-> 0, column |-> 0]

Null == [type |-> "<null>", value |-> NoValue, children |-> <<>>, position |-> NoPosition]

Min(a, b) == IF a < b THEN a ELSE b

(***************************************************************************)
(* String primitives of the source language, 0-based as in JavaScript.     *)
(***************************************************************************)
charAt(s, i) == IF i >= 0 /\ i < Len(s) THEN SubSeq(s, i + 1, i + 1) ELSE ""

slice(s, a, b) == IF a >= Min(b, Len(s)) THEN "" ELSE SubSeq(s, a + 1, Min(b, Len(s)))

sliceFrom(s, a) == slice(s, a, Len(s))

\* code.split('\n'): the pieces between consecutive newlines
split(s) ==
  LET nl     == { i \in 0..(Len(s) - 1) : charAt(s, i) = "\n" }
      n      == Cardinality(nl)
      pos(k) == IF k = 0 THEN -1
                ELSE IF k = n + 1 THEN Len(s)
                ELSE CHOOSE i \in nl : Cardinality({ j \in nl : j < i }) = k - 1
  IN  [k \in 1..(n + 1) |-> slice(s, pos(k - 1) + 1, pos(k))]

(***************************************************************************)
(* lexer.ts                                                                *)
(***************************************************************************)
KEYWORDS ==
  {"int", "float", "char", "if", "else", "while", "for", "return", "void", "main",
   "const", "static", "struct", "union", "enum", "typedef", "sizeof", "break", "continue"}

OPERATORS ==
  {"+", "-", "*", "/", "%", "=", "==", "!=", "<", ">", "<=", ">=", "&&", "||", "!",
   "++", "--", "+=", "-=", "*=", "/=", "&", "|", "^", "~", "<<", ">>"}

DELIMITERS == {"(", ")", "{", "}", "[", "]", ";", ",", ".", "->"}

Whitespace == {" ", "\t", "\r", "\f"}

Digits == {"0", "1", "2", "3", "4", "5", "6", "7", "8", "9"}

LowerLetters ==
  {"a", "b", "c", "d", "e", "f", "g", "h", "i", "j", "k", "l", "m",
   "n", "o", "p", "q", "r", "s", "t", "u", "v", "w", "x", "y", "z"}

UpperLetters ==
  {"A", "B", "C", "D", "E", "F", "G", "H", "I", "J", "K", "L", "M",
   "N", "O", "P", "Q", "R", "S", "T", "U", "V", "W", "X", "Y", "Z"}

IdentStart == LowerLetters \cup UpperLetters \cup {"_"}

IdentPart == IdentStart \cup Digits

Token(type, value, line, column) ==
  [type |-> type, value |-> value, line |-> line, column |-> column]

\* The inner loop of the string-literal branch: [value, col] after the scan.
\* The string scan ending at the first double quote, escaped or not.
RECURSIVE scanString_noEscape(_, _, _)
scanString_noEscape(line, col, value) ==
  IF col < Len(line) /\ charAt(line, col) # "\""
  THEN scanString_noEscape(line, col + 1, value \o charAt(line, col))
  ELSE IF col < Len(line)
       THEN [value |-> value \o "\"", col |-> col + 1]
       ELSE [value |-> value, col |-> col]

RECURSIVE scanString(_, _, _)
scanString(line, col, value) ==
  IF col < Len(line) /\ charAt(line, col) # "\""
  THEN IF charAt(line, col) = "\\" /\ col + 1 < Len(line)
       THEN scanString(line, col + 2, value \o charAt(line, col) \o charAt(line, col + 1))
       ELSE scanString(line, col + 1, value \o charAt(line, col))
  ELSE IF col < Len(line)
       THEN [value |-> value \o "\"", col |-> col + 1]
       ELSE [value |-> value, col |-> col]

\* The inner loops of the number and identifier branches.
\* The scan of a run that stops before a second '.'.
RECURSIVE scanRun_singlePoint(_, _, _, _)
scanRun_singlePoint(line, col, value, class) ==
  IF /\ col < Len(line) /\ charAt(line, col) \in class
     /\ ~(charAt(line, col) = "." /\ \E j \in 0..(Len(value) - 1) : charAt(value, j) = ".")
  THEN scanRun_singlePoint(line, col + 1, value \o charAt(line, col), class)
  ELSE [value |-> value, col |-> col]

RECURSIVE scanRun(_, _, _, _)
scanRun(line, col, value, class) ==
  IF col < Len(line) /\ charAt(line, col) \in class
  THEN scanRun(line, col + 1, value \o charAt(line, col), class)
  ELSE [value |-> value, col |-> col]

\* The branch the body of the while loop takes at column col: the tests of
\* the loop body, in their order.
\* The tests of the loop body with the single-character test before the
\* two-character one.
branchAt_oneCharFirst(line, col) ==
  IF charAt(line, col) \in Whitespace THEN "whitespace"
  ELSE IF slice(line, col, col + 2) = "//" THEN "comment"
  ELSE IF charAt(line, col) \in OPERATORS \/ charAt(line, col) \in DELIMITERS THEN "oneChar"
  ELSE IF col < Len(line) - 1 /\ slice(line, col, col + 2) \in OPERATORS THEN "twoChar"
  ELSE IF charAt(line, col) = "\"" THEN "string"
  ELSE IF charAt(line, col) \in Digits THEN "number"
  ELSE IF charAt(line, col) \in IdentStart THEN "identifier"
  ELSE "unknown"

branchAt(line, col) ==
  IF charAt(line, col) \in Whitespace THEN "whitespace"
  ELSE IF slice(line, col, col + 2) = "//" THEN "comment"
  ELSE IF col < Len(line) - 1 /\ slice(line, col, col + 2) \in OPERATORS THEN "twoChar"
  ELSE IF charAt(line, col) \in OPERATORS \/ charAt(line, col) \in DELIMITERS THEN "oneChar"
  ELSE IF charAt(line, col) = "\"" THEN "string"
  ELSE IF charAt(line, col) \in Digits THEN "number"
  ELSE IF charAt(line, col) \in IdentStart THEN "identifier"
  ELSE "unknown"

\* A literal or identifier token from a finished scan r = [value, col].
\* The token of a finished scan with the 0-based column of its first character.
scanned_zeroBased(type, r, lineNum) == Token(type, r.value, lineNum + 1, r.col - Len(r.value))

scanned(type, r, lineNum) == Token(type, r.value, lineNum + 1, r.col - Len(r.value) + 1)

\* The while loop over one line: the tokens pushed from column col on.
RECURSIVE scanLine(_, _, _)
scanLine(line, lineNum, col) ==
  IF col >= Len(line) THEN <<>>
  ELSE LET branch == branchAt(line, col)
       IN CASE branch = "whitespace" -> scanLine(line, lineNum, col + 1)
            [] branch = "comment" ->
                 <<Token("comment", sliceFrom(line, col), lineNum + 1, col + 1)>>
            [] branch = "twoChar" ->
                 <<Token("operator", slice(line, col, col + 2), lineNum + 1, col + 1)>>
                   \o scanLine(line, lineNum, col + 2)
            [] branch = "oneChar" ->
                 <<Token(IF charAt(line, col) \in OPERATORS THEN "operator" ELSE "delimiter",
                         charAt(line, col), lineNum + 1, col + 1)>>
                   \o scanLine(line, lineNum, col + 1)
            [] branch = "string" ->
                 LET r == scanString(line, col + 1, "\"")
                 IN  <<scanned("literal", r, lineNum)>> \o scanLine(line, lineNum, r.col)
            [] branch = "number" ->
                 LET r == scanRun(line, col, "", Digits \cup {"."})
                 IN  <<scanned("literal", r, lineNum)>> \o scanLine(line, lineNum, r.col)
            [] branch = "identifier" ->
                 LET r == scanRun(line, col, "", IdentPart)
                 IN  <<scanned(IF r.value \in KEYWORDS THEN "keyword" ELSE "identifier",
                               r, lineNum)>>
                       \o scanLine(line, lineNum, r.col)
            [] branch = "unknown" -> scanLine(line, lineNum, col + 1)

RECURSIVE scanLines(_, _)
scanLines(lines, lineNum) ==
  IF lineNum >= Len(lines) THEN <<>>
  ELSE scanLine(lines[lineNum + 1], lineNum, 0) \o scanLines(lines, lineNum + 1)

tokenize(code) == scanLines(split(code), 0)

(***************************************************************************)
(* parser.ts.  The cursor is threaded through: every parse operator takes  *)
(* the token list t and the cursor cur and returns [node, cur], the node   *)
(* returned (Null for null) and the cursor after the call.                 *)
(***************************************************************************)
Node(type, value, children, position) ==
  [type |-> type, value |-> value, children |-> children, position |-> position]

PositionOf(token) == [line |-> token.line, column |-> token.column]

Result(node, cur) == [node |-> node, cur |-> cur]

\* The constructor: comments are filtered out of the token list.
stripComments(ts) == SelectSeq(ts, LAMBDA tk : tk.type # "comment")

isAtEnd(t, cur) == cur >= Len(t)

peek(t, cur) == t[cur + 1]

previous(t, cur) == t[cur]

check(t, cur, type) == IF isAtEnd(t, cur) THEN FALSE ELSE peek(t, cur).type = type

\* advance() as the cursor it leaves.
advance(t, cur) == IF ~isAtEnd(t, cur) THEN cur + 1 ELSE cur

\* match(type): [ok, cur], the boolean returned and the cursor it leaves.
match(t, cur, type) ==
  IF check(t, cur, type) THEN [ok |-> TRUE, cur |-> advance(t, cur)]
  ELSE [ok |-> FALSE, cur |-> cur]

\* consume(type, value) as the cursor it leaves: no error when nothing matches.
consume(t, cur, type, value) ==
  IF check(t, cur, type) /\ peek(t, cur).value = value THEN advance(t, cur) ELSE cur

ComparisonOps == {"==", "!=", "<", ">", "<=", ">="}

AdditionOps == {"+", "-"}

MultiplicationOps == {"*", "/", "%"}

\* children: expr && right ? [expr, right] : []
BinaryExpression(operator, expr, right) ==
  Node("BinaryExpression", operator.value,
       IF expr # Null /\ right # Null THEN <<expr, right>> ELSE <<>>, NoPosition)

RECURSIVE parseStatement(_, _), parseIfStatement(_, _), parseWhileStatement(_, _),
          ifBlockLoop(_, _, _), parseExpression(_, _), parseComparison(_, _),
          comparisonLoop(_, _, _), parseAddition(_, _), additionLoop(_, _, _),
          parseMultiplication(_, _), multiplicationLoop(_, _, _), parsePrimary(_, _)

\* this.consume('delimiter', ')') after the parenthesized expression
closeParenthesis(t, expr) == Result(expr.node, consume(t, expr.cur, "delimiter", ")"))

parsePrimary(t, cur) ==
  IF check(t, cur, "literal")
  THEN Result(Node("Literal", peek(t, cur).value, <<>>, PositionOf(peek(t, cur))),
              advance(t, cur))
  ELSE IF check(t, cur, "identifier")
  THEN Result(Node("Identifier", peek(t, cur).value, <<>>, PositionOf(peek(t, cur))),
              advance(t, cur))
  ELSE LET m == match(t, cur, "delimiter")
       IN  IF m.ok /\ previous(t, m.cur).value = "("
           THEN closeParenthesis(t, parseExpression(t, m.cur))
           ELSE Result(Null, m.cur)

\* while (match('operator') && [...].includes(previous().value)) of
\* parseMultiplication: the operator token is consumed before it is tested.
multiplicationLoop(t, expr, cur) ==
  LET m == match(t, cur, "operator")
      iterate(right) ==
        multiplicationLoop(t, BinaryExpression(previous(t, m.cur), expr, right.node),
                           right.cur)
  IN  IF m.ok /\ previous(t, m.cur).value \in MultiplicationOps
      THEN iterate(parsePrimary(t, m.cur))
      ELSE Result(expr, m.cur)

parseMultiplication(t, cur) ==
  LET loop(first) == multiplicationLoop(t, first.node, first.cur)
  IN  loop(parsePrimary(t, cur))

additionLoop(t, expr, cur) ==
  LET m == match(t, cur, "operator")
      iterate(right) ==
        additionLoop(t, BinaryExpression(previous(t, m.cur), expr, right.node), right.cur)
  IN  IF m.ok /\ previous(t, m.cur).value \in AdditionOps
      THEN iterate(parseMultiplication(t, m.cur))
      ELSE Result(expr, m.cur)

parseAddition(t, cur) ==
  LET loop(first) == additionLoop(t, first.node, first.cur)
  IN  loop(parseMultiplication(t, cur))

comparisonLoop(t, expr, cur) ==
  LET m == match(t, cur, "operator")
      iterate(right) ==
        comparisonLoop(t, BinaryExpression(previous(t, m.cur), expr, right.node), right.cur)
  IN  IF m.ok /\ previous(t, m.cur).value \in ComparisonOps
      THEN iterate(parseAddition(t, m.cur))
      ELSE Result(expr, m.cur)

parseComparison(t, cur) ==
  LET loop(first) == comparisonLoop(t, first.node, first.cur)
  IN  loop(parseAddition(t, cur))

parseExpression(t, cur) == parseComparison(t, cur)

\* pushIf without the test: a null is pushed like a node.
pushIf_always(children, node) == Append(children, node)

\* if (expr) { children.push(expr) }
pushIf(children, node) == IF node # Null THEN Append(children, node) ELSE children

\* A statement node of the given children once its parse ends with
\* this.consume('delimiter', value) at cursor cur.
closeStatement(t, cur, type, value, children, delimiter) ==
  Result(Node(type, value, children, NoPosition), consume(t, cur, "delimiter", delimiter))

\* The tail shared by parseDeclaration and parseAssignment once the name is
\* consumed: an optional '=' Expression, then consume(';').
initializerAndSemicolon(t, cur, type, value, identifier) ==
  LET m == match(t, cur, "operator")
      initialized(expr) ==
        closeStatement(t, expr.cur, type, value, pushIf(<<identifier>>, expr.node), ";")
  IN  IF m.ok /\ previous(t, m.cur).value = "="
      THEN initialized(parseExpression(t, m.cur))
      ELSE closeStatement(t, m.cur, type, value, <<identifier>>, ";")

parseDeclaration(t, cur, type) ==
  IF check(t, cur, "identifier")
  THEN initializerAndSemicolon(t, advance(t, cur), "Declaration", type,
         Node("Identifier", peek(t, cur).value, <<>>, PositionOf(peek(t, cur))))
  ELSE closeStatement(t, cur, "Declaration", type, <<>>, ";")

parseAssignment(t, cur) ==
  initializerAndSemicolon(t, advance(t, cur), "Assignment", NoValue,
    Node("Identifier", peek(t, cur).value, <<>>, PositionOf(peek(t, cur))))

parseReturnStatement(t, cur) ==
  LET returned(expr) ==
        closeStatement(t, expr.cur, "ReturnStatement", NoValue, pushIf(<<>>, expr.node), ";")
  IN  IF ~check(t, cur, "delimiter") \/ peek(t, cur).value # ";"
      THEN returned(parseExpression(t, cur))
      ELSE closeStatement(t, cur, "ReturnStatement", NoValue, <<>>, ";")

\* The while loop of parseIfStatement's block: [node |-> children, cur].
ifBlockLoop(t, children, cur) ==
  LET iterate(stmt) == ifBlockLoop(t, pushIf(children, stmt.node), stmt.cur)
  IN  IF ~check(t, cur, "delimiter") \/ peek(t, cur).value # "}"
      THEN IF isAtEnd(t, cur) THEN Result(children, cur)
           ELSE iterate(parseStatement(t, cur))
      ELSE Result(children, cur)

\* The part of parseIfStatement after the condition is parsed: consume(')'),
\* then the block or the single statement.
ifBody(t, condition) ==
  LET c1 == consume(t, condition.cur, "delimiter", ")")
      head == pushIf(<<>>, condition.node)
      block(body) == closeStatement(t, body.cur, "IfStatement", NoValue, body.node, "}")
      single(stmt) ==
        Result(Node("IfStatement", NoValue, pushIf(head, stmt.node), NoPosition), stmt.cur)
  IN  IF check(t, c1, "delimiter") /\ peek(t, c1).value = "{"
      THEN block(ifBlockLoop(t, head, advance(t, c1)))
      ELSE single(parseStatement(t, c1))

parseIfStatement(t, cur) ==
  ifBody(t, parseExpression(t, consume(t, cur, "delimiter", "(")))

\* The part of parseWhileStatement after the condition is parsed.
whileBody(t, condition) ==
  LET single(body) ==
        Result(Node("WhileStatement", NoValue,
                    pushIf(pushIf(<<>>, condition.node), body.node), NoPosition),
               body.cur)
  IN  single(parseStatement(t, consume(t, condition.cur, "delimiter", ")")))

parseWhileStatement(t, cur) ==
  whileBody(t, parseExpression(t, consume(t, cur, "delimiter", "(")))

\* statementTail without the skip of an unrecognized token.
statementTail_noSkip(t, cur) ==
  IF check(t, cur, "identifier") THEN parseAssignment(t, cur)
  ELSE Result(Null, cur)

\* The part of parseStatement after the keyword dispatch: an unsupported
\* keyword, once consumed, falls through to it.
statementTail(t, cur) ==
  IF check(t, cur, "identifier") THEN parseAssignment(t, cur)
  ELSE IF ~isAtEnd(t, cur) THEN Result(Null, advance(t, cur))
  ELSE Result(Null, cur)

parseStatement(t, cur) ==
  LET m == match(t, cur, "keyword")
  IN  IF m.ok
      THEN LET keyword == previous(t, m.cur)
           IN  IF keyword.value \in {"int", "float", "char"}
               THEN parseDeclaration(t, m.cur, keyword.value)
               ELSE IF keyword.value = "if" THEN parseIfStatement(t, m.cur)
               ELSE IF keyword.value = "while" THEN parseWhileStatement(t, m.cur)
               ELSE IF keyword.value = "return" THEN parseReturnStatement(t, m.cur)
               ELSE statementTail(t, m.cur)
      ELSE statementTail(t, m.cur)

\* One iteration of the loop of parseProgram: [node |-> children, cur].
parseProgramStep(t, children, cur) ==
  LET pushed(stmt) == Result(pushIf(children, stmt.node), stmt.cur)
  IN  pushed(parseStatement(t, cur))

RECURSIVE parseProgramLoop(_, _, _)
parseProgramLoop(t, children, cur) ==
  IF ~isAtEnd(t, cur)
  THEN LET iterate(r) == parseProgramLoop(t, r.node, r.cur)
       IN  iterate(parseProgramStep(t, children, cur))
  ELSE Node("Program", NoValue, children, NoPosition)

\* new Parser(ts).parse()
parse(ts) == parseProgramLoop(stripComments(ts), <<>>, 0)

(***************************************************************************)
(* part_003: CodeGenerator.  g is the instance state [code, tempCounter];  *)
(* generateNode returns [value, g], the operand text returned and the      *)
(* state it leaves.                                                        *)
(***************************************************************************)
Instruction(operation, operand1, operand2, result) ==
  [operation |-> operation, operand1 |-> operand1, operand2 |-> operand2, result |-> result]

\* node.children?.[i] (0-based), Null when absent
childAt(node, i) == IF Len(node.children) > i THEN node.children[i + 1] ELSE Null

emit(g, instruction) == [g EXCEPT !.code = Append(@, instruction)]

Generated(value, g) == [value |-> value, g |-> g]

RECURSIVE generateNode(_, _), generateChildren(_, _, _)

\* The forEach taken from the last child to the first.
RECURSIVE generateChildren_reversed(_, _, _)
generateChildren_reversed(children, i, g) ==
  IF i > Len(children) THEN g
  ELSE generateNode(children[i], generateChildren_reversed(children, i + 1, g)).g

\* node.children?.forEach(child => this.generateNode(child)), from child i on
generateChildren(children, i, g) ==
  IF i > Len(children) THEN g
  ELSE generateChildren(children, i + 1, generateNode(children[i], g).g)

generateDeclaration(node, g) ==
  LET identifier == childAt(node, 0)
  IN  IF identifier # Null
      THEN LET g1 == emit(g, Instruction("DECLARE", node.value, NoValue, identifier.value))
           IN  IF childAt(node, 1) # Null
               THEN LET v == generateNode(childAt(node, 1), g1)
                    IN  Generated("", emit(v.g, Instruction("ASSIGN", v.value, NoValue,
                                                            identifier.value)))
               ELSE Generated("", g1)
      ELSE Generated("", g)

generateAssignment(node, g) ==
  LET identifier == childAt(node, 0)
      expression == childAt(node, 1)
  IN  IF identifier # Null /\ expression # Null
      THEN LET v == generateNode(expression, g)
           IN  Generated("", emit(v.g, Instruction("ASSIGN", v.value, NoValue,
                                                   identifier.value)))
      ELSE Generated("", g)

\* const temp = `t${this.tempCounter++}` and the push of the instruction
allocateAndEmit(operation, leftOperand, rightOperand, g) ==
  LET temp == "t" \o ToString(g.tempCounter)
  IN  Generated(temp,
                emit([g EXCEPT !.tempCounter = @ + 1],
                     Instruction(operation, leftOperand, rightOperand, temp)))

generateBinaryExpression(node, g) ==
  LET left  == childAt(node, 0)
      right == childAt(node, 1)
  IN  IF left # Null /\ right # Null
      THEN LET l == generateNode(left, g)
               r == generateNode(right, l.g)
           IN  allocateAndEmit(node.value, l.value, r.value, r.g)
      ELSE Generated("", g)

generateNode(node, g) ==
  CASE node.type = "Program" -> Generated("", generateChildren(node.children, 1, g))
    [] node.type = "Declaration" -> generateDeclaration(node, g)
    [] node.type = "Assignment" -> generateAssignment(node, g)
    [] node.type = "BinaryExpression" -> generateBinaryExpression(node, g)
    [] node.type = "Identifier" -> Generated(node.value, g)
    [] node.type = "Literal" -> Generated(node.value, g)
    [] OTHER -> Generated("", generateChildren(node.children, 1, g))

\* generateReset that leaves the counter of temporaries as it is.
generateReset_keepCounter(g) == [code |-> <<>>, tempCounter |-> g.tempCounter]

\* this.code = []; this.tempCounter = 0
generateReset(g) == [code |-> <<>>, tempCounter |-> 0]

\* generate(root) from any instance state g: the instance state it leaves
generate(root, g) == generateNode(root, generateReset(g)).g

(***************************************************************************)
(* semanticAnalyzer.ts.  st is the instance state                          *)
(*   [symbolTable, currentScope, errors, scopes, variableUsage,            *)
(*    addedIdentifiers]                                                    *)
(* together with st.clock, the values the coming calls of Date.now() will  *)
(* return, in order.  scopes is the Map from scope id to the set of names  *)
(* declared in it; variableUsage is the Map from name to usage record, as  *)
(* the sequence of its entries in insertion order (the order in which a    *)
(* Map is iterated); the Set standardIdentifiers is its initial content    *)
(* together with addedIdentifiers, the names added to it since.            *)
(***************************************************************************)
InitialStandardIdentifiers ==
  {"printf", "scanf", "main", "puts", "gets", "putchar", "getchar", "size_t", "NULL",
   "stdin", "fgets", "strcspn", "strcmp",
   "stringCopy", "stringConcat", "stringLength", "bubbleSort", "decimalToBinary",
   "decimalToHex", "strlen",
   "include", "stdio", "h", "string", "stdbool",
   "src", "str", "str1", "str2", "arr", "decimal", "i", "length", "pattern", "text",
   "result",
   "bool", "char", "int", "float", "double", "void", "return", "if", "else", "while",
   "for", "do", "break", "continue"}

standardIdentifiers(st) == InitialStandardIdentifiers \cup st.addedIdentifiers

preprocessorDirectives == {"#include", "#define", "#ifdef", "#ifndef", "#endif", "#pragma"}

\* name.toLowerCase(), character by character
lowerOf(ch) ==
  IF ch \in UpperLetters
  THEN CHOOSE l \in LowerLetters :
         \E k \in 1..26 : SubSeq("abcdefghijklmnopqrstuvwxyz", k, k) = l
                          /\ SubSeq("ABCDEFGHIJKLMNOPQRSTUVWXYZ", k, k) = ch
  ELSE ch

RECURSIVE toLowerCase(_)
toLowerCase(s) == IF s = "" THEN "" ELSE lowerOf(Head(s)) \o toLowerCase(Tail(s))

\* s.lastIndexOf('_'): the greatest index of '_' in s, -1 when there is none
lastIndexOf(s, ch) ==
  LET at == { i \in 0..(Len(s) - 1) : charAt(s, i) = ch }
  IN  IF at = {} THEN -1 ELSE CHOOSE i \in at : \A j \in at : j <= i

allIn(s, class) == \A i \in 0..(Len(s) - 1) : charAt(s, i) \in class

\* The characters '.' of a regular expression matches: all but line ends.
notLineEnd(s) == \A i \in 0..(Len(s) - 1) : charAt(s, i) \notin {"\n", "\r"}

inferType(value) ==
  IF Len(value) >= 1 /\ allIn(value, Digits) THEN "int"                      \* /^\d+$/
  ELSE IF \E k \in 0..(Len(value) - 2) :                                      \* /^\d*\.\d+$/
            /\ allIn(slice(value, 0, k), Digits)
            /\ charAt(value, k) = "."
            /\ allIn(sliceFrom(value, k + 1), Digits)
       THEN "float"
  ELSE IF /\ Len(value) >= 2 /\ charAt(value, 0) = "\""                       \* /^".*"$/
          /\ charAt(value, Len(value) - 1) = "\""
          /\ notLineEnd(slice(value, 1, Len(value) - 1))
       THEN "string"
  ELSE IF /\ Len(value) = 3 /\ charAt(value, 0) = "'" /\ charAt(value, 2) = "'"  \* /^'.'$/
          /\ notLineEnd(charAt(value, 1))
       THEN "char"
  ELSE IF value = "true" \/ value = "false" THEN "bool"
  ELSE "unknown"

numericTypes == {"int", "float", "double"}

\* isCompatible without the (int, char) direction of the char/int case.
isCompatible_oneWay(type1, type2) ==
  IF type1 = type2 THEN TRUE
  ELSE IF type1 \in numericTypes /\ type2 \in numericTypes THEN TRUE
  ELSE IF type1 = "char" /\ type2 = "int" THEN TRUE
  ELSE FALSE

isCompatible(type1, type2) ==
  IF type1 = type2 THEN TRUE
  ELSE IF type1 \in numericTypes /\ type2 \in numericTypes THEN TRUE
  ELSE IF (type1 = "char" /\ type2 = "int") \/ (type1 = "int" /\ type2 = "char") THEN TRUE
  ELSE FALSE

areTypesCompatibleForOperation(type1, type2, operator) ==
  IF operator \in {"+", "-", "*", "/", "%"}
  THEN type1 \in {"int", "float", "double", "char"} /\ type2 \in {"int", "float", "double", "char"}
  ELSE IF operator \in {"==", "!=", "<", ">", "<=", ">="} THEN isCompatible(type1, type2)
  ELSE IF operator \in {"&&", "||"} THEN TRUE
  ELSE FALSE

SymbolTableEntry(name, type, scope, line, value) ==
  [name |-> name, type |-> type, scope |-> scope, line |-> line, value |-> value]

\* No entry found: the undefined of find / get.
NoSymbol == SymbolTableEntry(NoValue, NoValue, NoValue, 0, NoValue)

\* node.position?.line || 0
lineOf(node) == node.position.line

\* redeclarationMessage citing the line before the one it is given.
redeclarationMessage_lineBefore(line, name) ==
  "Line " \o ToString(line - 1) \o ": Variable '" \o name
    \o "' already declared in current scope"

\* The messages pushed on this.errors.
redeclarationMessage(line, name) ==
  "Line " \o ToString(line) \o ": Variable '" \o name \o "' already declared in current scope"

undeclaredAssignmentMessage(line, name) ==
  "Line " \o ToString(line) \o ": Variable '" \o name \o "' used before declaration"

undeclaredUseMessage(line, name) ==
  "Line " \o ToString(line) \o ": Variable or function '" \o name \o "' used before declaration"

uninitializedUseMessage(line, name) ==
  "Line " \o ToString(line) \o ": Variable '" \o name \o "' used before initialization"

assignMismatchMessage(line, rightType, type, name) ==
  "Line " \o ToString(line) \o ": Type mismatch - cannot assign " \o rightType \o " to "
    \o type \o " variable '" \o name \o "'"

operationMismatchMessage(line, operator, leftType, rightType) ==
  "Line " \o ToString(line) \o ": Type mismatch in " \o operator \o " operation between "
    \o leftType \o " and " \o rightType

unusedMessage(name) == "Warning: Variable '" \o name \o "' declared but never used"

pushError(st, message) == [st EXCEPT !.errors = Append(@, message)]

\* Map.get / Map.set of this.scopes
scopesGet(scopes, scope) == IF scope \in DOMAIN scopes THEN scopes[scope] ELSE {}

scopesSet(scopes, scope, names) ==
  [k \in DOMAIN scopes \cup {scope} |-> IF k = scope THEN names ELSE scopes[k]]

\* Map.get / Map.set of this.variableUsage: the index of the entry of name (0
\* when there is none); set keeps the place of an entry that exists.
usageIndex(variableUsage, name) ==
  IF \E k \in 1..Len(variableUsage) : variableUsage[k].name = name
  THEN CHOOSE k \in 1..Len(variableUsage) : variableUsage[k].name = name
  ELSE 0

usageSet(variableUsage, name, declared, initialized) ==
  LET entry == [name |-> name, declared |-> declared, used |-> FALSE,
                initialized |-> initialized]
      k     == usageIndex(variableUsage, name)
  IN  IF k = 0 THEN Append(variableUsage, entry) ELSE [variableUsage EXCEPT ![k] = entry]

\* The parent a scope id is trimmed to: the shared step of exitScope and of
\* the loop of findSymbolInScope.
trimScope(scope) ==
  LET idx == lastIndexOf(scope, "_")
  IN  IF idx > 0 THEN slice(scope, 0, idx) ELSE "global"

enterScope(st, scopeType) ==
  LET newScope == st.currentScope \o "_" \o scopeType \o "_" \o ToString(Head(st.clock))
  IN  [st EXCEPT !.currentScope = newScope,
                 !.scopes = scopesSet(@, newScope, {}),
                 !.clock = Tail(@)]

exitScope(st) == [st EXCEPT !.currentScope = trimScope(@)]

\* symbolTable.find(entry => entry.name === name && entry.scope === scope)
findInTable(symbolTable, name, scope) ==
  LET hits == { k \in 1..Len(symbolTable) :
                  symbolTable[k].name = name /\ symbolTable[k].scope = scope }
  IN  IF hits = {} THEN NoSymbol
      ELSE symbolTable[CHOOSE k \in hits : \A j \in hits : k <= j]

RECURSIVE findSymbolFrom(_, _, _)
findSymbolFrom(symbolTable, name, scope) ==
  IF scope = "" THEN NoSymbol
  ELSE LET found == findInTable(symbolTable, name, scope)
       IN  IF found # NoSymbol THEN found
           ELSE IF lastIndexOf(scope, "_") > 0
                THEN findSymbolFrom(symbolTable, name, trimScope(scope))
                ELSE IF scope # "global" THEN findSymbolFrom(symbolTable, name, "global")
                ELSE NoSymbol

findSymbolInScope(st, name) == findSymbolFrom(st.symbolTable, name, st.currentScope)

\* markUsage that sets used only.
markUsage_usedOnly(st, name, alsoInitialized) ==
  LET k == usageIndex(st.variableUsage, name)
  IN  IF k = 0 THEN st ELSE [st EXCEPT !.variableUsage[k].used = TRUE]

\* usage.used = true (and usage.initialized = true in handleAssignment), when
\* variableUsage has an entry for the name
markUsage(st, name, alsoInitialized) ==
  LET k == usageIndex(st.variableUsage, name)
  IN  IF k = 0 THEN st
      ELSE [st EXCEPT !.variableUsage[k].used = TRUE,
                      !.variableUsage[k].initialized = IF alsoInitialized THEN TRUE ELSE @]

handleIdentifierUsage(node, st) ==
  LET name == node.value
      line == lineOf(node)
  IN  IF name \in standardIdentifiers(st)
         \/ (Len(name) <= 8 /\ name = toLowerCase(name))
      THEN st
      ELSE IF name \in preprocessorDirectives THEN st
      ELSE LET symbol == findSymbolInScope(st, name)
           IN  IF symbol = NoSymbol THEN pushError(st, undeclaredUseMessage(line, name))
               ELSE IF symbol.type # "function"
               THEN LET k  == usageIndex(st.variableUsage, name)
                        s1 == IF k # 0 /\ ~st.variableUsage[k].initialized
                              THEN pushError(st, uninitializedUseMessage(line, name))
                              ELSE st
                    IN  markUsage(s1, name, FALSE)
               ELSE st

\* The type handleBinaryExpression determines for one operand ('' when the
\* operand is neither an Identifier nor a Literal).
\* operandType giving 'unknown' to what is neither identifier nor literal.
operandType_unknownOtherwise(operand, st) ==
  IF operand.type = "Identifier"
  THEN LET symbol == findSymbolInScope(st, operand.value)
       IN  IF symbol # NoSymbol /\ symbol.type # "" THEN symbol.type ELSE "unknown"
  ELSE IF operand.type = "Literal" THEN inferType(operand.value)
  ELSE "unknown"

\* let leftType = ''; then the type of an identifier or of a literal
operandType(operand, st) ==
  IF operand.type = "Identifier"
  THEN LET symbol == findSymbolInScope(st, operand.value)
       IN  IF symbol # NoSymbol /\ symbol.type # "" THEN symbol.type ELSE "unknown"
  ELSE IF operand.type = "Literal" THEN inferType(operand.value)
  ELSE ""

\* The type check of handleBinaryExpression, once the children are analyzed.
checkBinaryTypes(node, st) ==
  IF Len(node.children) = 2
  THEN LET left      == node.children[1]
           right     == node.children[2]
           line      == IF lineOf(node) # 0 THEN lineOf(node) ELSE lineOf(left)
           leftType  == operandType(left, st)
           rightType == operandType(right, st)
       IN  IF /\ leftType # "" /\ rightType # ""
              /\ ~areTypesCompatibleForOperation(leftType, rightType, node.value)
           THEN pushError(st, operationMismatchMessage(line, node.value, leftType, rightType))
           ELSE st
  ELSE st

RECURSIVE analyzeNode(_, _), analyzeChildren(_, _, _)

\* node.children?.forEach(child => this.analyzeNode(child)), from child i on
analyzeChildren(children, i, st) ==
  IF i > Len(children) THEN st
  ELSE analyzeChildren(children, i + 1, analyzeNode(children[i], st))

handleFunctionDeclaration(node, st) ==
  LET identifier == IF node.value = NoValue THEN "" ELSE node.value
      s1 == [st EXCEPT !.symbolTable =
                         Append(@, SymbolTableEntry(identifier, "function", st.currentScope,
                                                    lineOf(node), NoValue)),
                       !.addedIdentifiers = @ \cup {identifier}]
  IN  exitScope(analyzeChildren(node.children, 1, enterScope(s1, identifier)))

handleDeclaration(node, st) ==
  LET identifier == childAt(node, 0)
  IN  IF identifier # Null /\ identifier.type = "Identifier"
      THEN LET name      == identifier.value
               line      == lineOf(identifier)
               scopeVars == scopesGet(st.scopes, st.currentScope)
           IN  IF name \in scopeVars
               THEN pushError(st, redeclarationMessage(line, name))
               ELSE LET isInitialized == Len(node.children) > 1
                        s1 == [st EXCEPT
                                 !.scopes = scopesSet(@, st.currentScope, scopeVars \cup {name}),
                                 !.symbolTable =
                                   Append(@, SymbolTableEntry(name, node.value, st.currentScope,
                                            line,
                                            IF isInitialized THEN node.children[2].value
                                            ELSE NoValue)),
                                 !.variableUsage = usageSet(@, name, line, isInitialized)]
                    IN  IF isInitialized THEN analyzeNode(node.children[2], s1) ELSE s1
      ELSE st

handleAssignment(node, st) ==
  LET identifier == childAt(node, 0)
  IN  IF identifier # Null /\ identifier.type = "Identifier"
      THEN LET name   == identifier.value
               line   == lineOf(identifier)
               symbol == findSymbolInScope(st, name)
           IN  IF symbol = NoSymbol
               THEN pushError(st, undeclaredAssignmentMessage(line, name))
               ELSE LET s1 == markUsage(st, name, TRUE)
                    IN  IF childAt(node, 1) # Null
                        THEN LET rightSide == node.children[2]
                                 s2        == analyzeNode(rightSide, s1)
                             IN  IF /\ rightSide.type = "Literal"
                                    /\ ~isCompatible(symbol.type, inferType(rightSide.value))
                                 THEN pushError(s2,
                                        assignMismatchMessage(line, inferType(rightSide.value),
                                                              symbol.type, name))
                                 ELSE s2
                        ELSE s1
      ELSE st

handleBinaryExpression(node, st) ==
  checkBinaryTypes(node, analyzeChildren(node.children, 1, st))

\* case 'IfStatement' / 'WhileStatement' / 'BlockStatement'
analyzeScoped(node, st, scopeType) ==
  exitScope(analyzeChildren(node.children, 1, enterScope(st, scopeType)))

analyzeNode(node, st) ==
  IF node.type = "PreprocessorDirective" \/ node.value \in preprocessorDirectives THEN st
  ELSE CASE node.type = "FunctionDeclaration" -> handleFunctionDeclaration(node, st)
         [] node.type = "Declaration" -> handleDeclaration(node, st)
         [] node.type = "Assignment" -> handleAssignment(node, st)
         [] node.type = "Identifier" -> handleIdentifierUsage(node, st)
         [] node.type = "IfStatement" -> analyzeScoped(node, st, "if")
         [] node.type = "WhileStatement" -> analyzeScoped(node, st, "while")
         [] node.type = "BlockStatement" -> analyzeScoped(node, st, "block")
         [] node.type = "BinaryExpression" -> handleBinaryExpression(node, st)
         [] OTHER -> analyzeChildren(node.children, 1, st)

\* The entries of variableUsage from k on that are not used, as warnings.
RECURSIVE unusedWarnings(_, _)
unusedWarnings(variableUsage, k) ==
  IF k > Len(variableUsage) THEN <<>>
  ELSE (IF ~variableUsage[k].used THEN <<unusedMessage(variableUsage[k].name)>> ELSE <<>>)
         \o unusedWarnings(variableUsage, k + 1)

checkUnusedVariables(st) == [st EXCEPT !.errors = @ \o unusedWarnings(st.variableUsage, 1)]

\* The reset at the entry of analyze; standardIdentifiers is not reset.
analyzeReset(st) ==
  [st EXCEPT !.symbolTable = <<>>,
             !.errors = <<>>,
             !.scopes = [k \in {"global"} |-> {}],
             !.variableUsage = <<>>,
             !.currentScope = "global"]

\* analyze(root) from instance state st, Date.now() returning st.clock
analyze(root, st) == checkUnusedVariables(analyzeNode(root, analyzeReset(st)))

\* A new SemanticAnalyzer(), the clock readings to come being clock.
NewAnalyzer(clock) ==
  [symbolTable |-> <<>>, currentScope |-> "global", errors |-> <<>>,
   scopes |-> [k \in {} |-> {}], variableUsage |-> <<>>,
   addedIdentifiers |-> {}, clock |-> clock]

\* The number of calls of enterScope the analysis of node makes.
RECURSIVE enterCount(_), enterCountAll(_, _)
enterCountAll(children, i) ==
  IF i > Len(children) THEN 0 ELSE enterCount(children[i]) + enterCountAll(children, i + 1)

enterCount(node) ==
  (IF node.type \in {"IfStatement", "WhileStatement", "BlockStatement", "FunctionDeclaration"}
   THEN 1 ELSE 0) + enterCountAll(node.children, 1)

(***************************************************************************)
(* The parser as a state machine: one Parser instance on one token list,   *)
(* parseProgram's loop taken one iteration at a time.                      *)
(***************************************************************************)
\* The (type, value) pairs the unstructured token lists are drawn from.
TokenAlphabet ==
  { <<"keyword", "int">>, <<"keyword", "if">>, <<"keyword", "while">>,
    <<"keyword", "return">>, <<"keyword", "else">>,
    <<"identifier", "a">>, <<"literal", "1">>,
    <<"operator", "=">>, <<"operator", "<">>,
    <<"delimiter", "(">>, <<"delimiter", ")">>,
    <<"delimiter", "{">>, <<"delimiter", "}">>, <<"delimiter", ";">> }

\* Every token list of at most MaxTokens tokens over the alphabet, on one line.
GarbageTokenLists ==
  UNION { { [i \in 1..n |-> Token(f[i][1], f[i][2], 1, i)] : f \in [1..n -> TokenAlphabet] }
          : n \in 0..MaxTokens }

\* Sources with a chained comparison as the right-hand side of an assignment
\* or declaration or as an if/while condition; exprStart is the index
\* (0-based) of the first token of the expression.
ChainedComparisonSources ==
  { [source |-> "x = a < b < c;",          exprStart |-> 2],
    [source |-> "int x = a < b < c;",      exprStart |-> 3],
    [source |-> "if (a < b < c) x = 1;",   exprStart |-> 2],
    [source |-> "while (a < b < c) x = 1;", exprStart |-> 2] }

SampleSources ==
  { "int sum = x + y;",
    "if (1) { int y = 2; } y = 3;",
    "x = a - b - c;",
    "x = a * b * c;",
    "x = a + b * c;",
    "return (a);" }

ParserInputs ==
  GarbageTokenLists
    \cup { stripComments(tokenize(c.source)) : c \in ChainedComparisonSources }
    \cup { stripComments(tokenize(src)) : src \in SampleSources }

\* The Program node of an empty token list.
EmptyProgram == Node("Program", NoValue, <<>>, NoPosition)

\* The parser, the analyzer and the generator before they are used.
ParserIdle ==
  /\ tokens = <<>>
  /\ current = 0
  /\ program = <<>>
  /\ parseResult = Null
  /\ steps = 0

AnalyzerIdle ==
  /\ analyzer = NewAnalyzer(<<>>)
  /\ anChild = 0
  /\ anPhase = "idle"
  /\ anResult = [symbolTable |-> <<>>, errors |-> <<>>]
  /\ now = 1
  /\ anCalls = <<>>

\* No call of tokenize was made.
LexerIdle ==
  /\ lexer = [phase |-> "idle", code |-> "", tokens |-> <<>>, lines |-> <<>>, lineNum |-> 0]
  /\ lexCalls = <<>>

\* Nothing called, nothing allocated, no run in flight.
AuxIdle ==
  /\ typeCalls = <<>>
  /\ heap = <<>>
  /\ handles = <<>>
  /\ runs = <<>>

GeneratorIdle ==
  /\ generator = [code |-> <<>>, tempCounter |-> 0]
  /\ genChild = 0
  /\ genPhase = "idle"
  /\ genResult = <<>>
  /\ genCalls = 0

\* The App before any compilation: INITIAL_STAGES and the useState defaults.
INITIAL_STAGES == [i \in 1..4 |-> [active |-> FALSE, completed |-> FALSE]]

NoOutputs ==
  [tokens |-> <<>>, ast |-> Null, symbolTable |-> <<>>, semanticErrors |-> <<>>,
   intermediateCode |-> <<>>]

NoRun == [code |-> "", generatedTokens |-> <<>>, generatedAst |-> Null]

AppIdle ==
  /\ pc = "idle"
  /\ stages = INITIAL_STAGES
  /\ isCompiling = FALSE
  /\ ui = NoOutputs
  /\ run = NoRun

ParserInit ==
  /\ tokens \in ParserInputs
  /\ current = 0
  /\ program = <<>>
  /\ parseResult = Null
  /\ steps = 0
  /\ source = ""
  /\ ast = EmptyProgram
  /\ AnalyzerIdle
  /\ GeneratorIdle
  /\ AppIdle
  /\ LexerIdle
  /\ AuxIdle

\* while (!this.isAtEnd()) { stmt = parseStatement(); if (stmt) push }
ParseProgramIterate ==
  /\ parseResult = Null
  /\ ~isAtEnd(tokens, current)
  /\ LET r == parseProgramStep(tokens, program, current)
     IN  /\ program' = r.node
         /\ current' = r.cur
  /\ steps' = steps + 1
  /\ UNCHANGED <<tokens, parseResult, inputVars, analyzerVars, generatorVars, appVars, lexerVars, auxVars>>

\* return program
ParseProgramReturn ==
  /\ parseResult = Null
  /\ isAtEnd(tokens, current)
  /\ parseResult' = Node("Program", NoValue, program, NoPosition)
  /\ UNCHANGED <<tokens, current, program, steps, inputVars, analyzerVars, generatorVars, appVars, lexerVars, auxVars>>

ParserNext == ParseProgramIterate \/ ParseProgramReturn

SpecParser == ParserInit /\ [][ParserNext]_vars

(***************************************************************************)
(* C1  Parser totality: on every token list parse ends with a node of type *)
(* Program; every call of parseStatement made with the cursor before the   *)
(* end moves the cursor forward by at least one token and never past the   *)
(* token count, so the loop of parseProgram runs at most once per token.   *)
(***************************************************************************)
C1_ParserTotality ==
  /\ current <= Len(tokens)
  /\ steps <= current
  /\ \A c \in 0..(Len(tokens) - 1) :
       LET r == parseStatement(tokens, c)
       IN  r.cur > c /\ r.cur <= Len(tokens)
  /\ parseResult # Null => parseResult.type = "Program" /\ current = Len(tokens)
  /\ parse(tokens).type = "Program"

\* A list of delimiters and operators only has been parsed to an empty Program.
C1_Witness ==
  /\ parseResult # Null
  /\ Len(tokens) = MaxTokens
  /\ \A i \in 1..Len(tokens) : tokens[i].type \in {"delimiter", "operator"}
  /\ parseResult.type = "Program"
  /\ parseResult.children = <<>>

(***************************************************************************)
(* C2  Chained comparison shape: the expression tokens a < b < c, as the   *)
(* right-hand side of an assignment or declaration or as an if/while       *)
(* condition, parse to BinaryExpression('<', BinaryExpression('<', a, b),  *)
(* c).                                                                     *)
(***************************************************************************)
IsIdentifier(node, name) == node.type = "Identifier" /\ node.value = name

IsBinary(node, operator) ==
  node.type = "BinaryExpression" /\ node.value = operator /\ Len(node.children) = 2

IsLeftDeepChain(node) ==
  /\ IsBinary(node, "<")
  /\ IsBinary(node.children[1], "<")
  /\ IsIdentifier(node.children[1].children[1], "a")
  /\ IsIdentifier(node.children[1].children[2], "b")
  /\ IsIdentifier(node.children[2], "c")

\* The expression of the first statement of a program: the second child of
\* an Assignment or Declaration, the first child of an If or While.
FirstExpression(root) ==
  IF root.children = <<>> THEN Null
  ELSE LET stmt == root.children[1]
       IN  childAt(stmt, IF stmt.type \in {"Assignment", "Declaration"} THEN 1 ELSE 0)

C2_ChainedComparisonShape ==
  \A c \in ChainedComparisonSources :
    (parseResult # Null /\ tokens = stripComments(tokenize(c.source)))
      => /\ IsLeftDeepChain(FirstExpression(parseResult))
         /\ IsLeftDeepChain(parseExpression(tokens, c.exprStart).node)

(***************************************************************************)
(* The code generator as a state machine: one CodeGenerator instance,      *)
(* generate called up to MaxGenerateCalls times, each time on the AST of a *)
(* source that went through tokenize and parse.  The forEach over the      *)
(* children of the Program node is taken one child at a time.              *)
(***************************************************************************)
GeneratorLines ==
  { "int x = 1; int y = 2;",
    "int sum = x + y;",
    "x = (a * b) * (c * d);",
    "if (a * b) { y = c * d; }",
    "while (a) return c * d;",
    "x = a * ;" }

\* The sources of 1..n lines drawn from lines, joined by newlines.
RECURSIVE SourcesOf(_, _)
SourcesOf(lines, n) ==
  IF n = 1 THEN lines
  ELSE LET shorter == SourcesOf(lines, n - 1)
       IN  shorter \cup { s \o "\n" \o l : s \in shorter, l \in lines }

\* Sources with a variable named like a temporary.
TemporaryNameSources == { "int t0 = 1;\nx = t0 * 2;" }

GeneratorSources == SourcesOf(GeneratorLines, MaxGenLines) \cup TemporaryNameSources

GeneratorInit ==
  /\ ParserIdle
  /\ source = ""
  /\ ast = EmptyProgram
  /\ AnalyzerIdle
  /\ GeneratorIdle
  /\ AppIdle
  /\ LexerIdle
  /\ AuxIdle

\* generate(ast) is entered: this.code = []; this.tempCounter = 0
GenerateEnter ==
  /\ genPhase \in {"idle", "done"}
  /\ genCalls < MaxGenerateCalls
  /\ \E src \in GeneratorSources :
       /\ source' = src
       /\ ast' = parse(tokenize(src))
  /\ generator' = generateReset(generator)
  /\ genChild' = 0
  /\ genPhase' = "running"
  /\ genCalls' = genCalls + 1
  /\ UNCHANGED <<genResult, parserVars, analyzerVars, appVars, lexerVars, auxVars>>

\* case 'Program': one iteration of node.children.forEach
GenerateChild ==
  /\ genPhase = "running"
  /\ genChild < Len(ast.children)
  /\ generator' = generateNode(ast.children[genChild + 1], generator).g
  /\ genChild' = genChild + 1
  /\ UNCHANGED <<genPhase, genResult, genCalls, inputVars, parserVars, analyzerVars, appVars, lexerVars, auxVars>>

\* return this.code
GenerateReturn ==
  /\ genPhase = "running"
  /\ genChild = Len(ast.children)
  /\ genResult' = generator.code
  /\ genPhase' = "done"
  /\ UNCHANGED <<generator, genChild, genCalls, inputVars, parserVars, analyzerVars, appVars, lexerVars, auxVars>>

GeneratorNext == GenerateEnter \/ GenerateChild \/ GenerateReturn

SpecGenerator == GeneratorInit /\ [][GeneratorNext]_vars

(***************************************************************************)
(* C3  For the source `int sum = x + y;`, x and y declared int before it,  *)
(* tokenize, parse and generate emit for that statement, in this order: a  *)
(* DECLARE with result sum, a + instruction with operand1 x, operand2 y    *)
(* and a fresh temporary as result, and an ASSIGN of that temporary to sum.*)
(***************************************************************************)
SumSource == "int x = 1; int y = 2;\nint sum = x + y;"

\* code[k], code[k+1], code[k+2] are the three instructions of the claim.
IsSumLowering(code, k) ==
  /\ k + 2 <= Len(code)
  /\ code[k].operation = "DECLARE" /\ code[k].result = "sum"
  /\ code[k + 1].operation = "+"
  /\ code[k + 1].operand1 = "x" /\ code[k + 1].operand2 = "y"
  /\ code[k + 1].result = "t0"
  /\ code[k + 2].operation = "ASSIGN"
  /\ code[k + 2].operand1 = code[k + 1].result /\ code[k + 2].result = "sum"

C3_SumLowering ==
  (genPhase = "done" /\ source = SumSource)
    => \E k \in 1..Len(genResult) : IsSumLowering(genResult, k)

(***************************************************************************)
(* C4  In one generate call on an AST with N BinaryExpression nodes of two *)
(* children, the binary instructions carry the results t0 .. t(N-1) in     *)
(* emission order, and the next call on the same instance starts again at  *)
(* t0 whatever the call before produced.                                   *)
(***************************************************************************)
\* The number of BinaryExpression nodes with two children in a tree.
RECURSIVE binaryCount(_), binaryCountAll(_, _)
binaryCountAll(children, i) ==
  IF i > Len(children) THEN 0 ELSE binaryCount(children[i]) + binaryCountAll(children, i + 1)

binaryCount(node) ==
  (IF node.type = "BinaryExpression" /\ Len(node.children) = 2 THEN 1 ELSE 0)
    + binaryCountAll(node.children, 1)

\* The instructions of a list that have two operands.
binaryInstructions(code) == SelectSeq(code, LAMBDA ins : ins.operand2 # NoValue)

TemporariesInOrder(code) ==
  LET bin == binaryInstructions(code)
  IN  \A k \in 1..Len(bin) : bin[k].result = "t" \o ToString(k - 1)

C4_TemporariesIncreaseAndReset ==
  /\ genPhase = "running" =>
       /\ TemporariesInOrder(generator.code)
       /\ Len(binaryInstructions(generator.code))
            = binaryCountAll(SubSeq(ast.children, 1, genChild), 1)
       /\ generator.tempCounter = Len(binaryInstructions(generator.code))
  /\ genPhase = "done" =>
       /\ TemporariesInOrder(genResult)
       /\ Len(binaryInstructions(genResult)) = binaryCount(ast)

\* A second call on the instance has emitted t0 again after a first call
\* that had produced three temporaries.
C4_Witness ==
  /\ genCalls = 2
  /\ genPhase = "running"
  /\ Len(binaryInstructions(genResult)) >= 3
  /\ Len(binaryInstructions(generator.code)) >= 2
  /\ binaryInstructions(generator.code)[1].result = "t0"

(***************************************************************************)
(* The semantic analyzer as a state machine: one SemanticAnalyzer          *)
(* instance, analyze called on the AST of a source that went through       *)
(* tokenize and parse.  The forEach over the children of the Program node  *)
(* is taken one child at a time; every call of Date.now() made on the way  *)
(* returns a value not smaller than the one before, at most MaxClock.      *)
(***************************************************************************)
AnalyzerLines ==
  { "int Y = 1;",
    "int Y;",
    "Y = 3;",
    "Y = \"s\";",
    "int z = 5;",
    "int W = z;",
    "int W = Y;",
    "if (1) { int Y = 2; }",
    "if (1) { int Y = 2; if (1) { } }",
    "if (1) { if (1) { int Y = 2; } }",
    "while (Y) Y = 2;" }

\* Sources whose second statement assigns a binary expression.
BinarySources ==
  { "int Y = 1;\nY = (1 * 2) * 3;",
    "int Y = 1;\nY = W * 3;",
    "int Y = 1;\nY = Y * \"s\";" }

AnalyzerSources == SourcesOf(AnalyzerLines, MaxLines) \cup BinarySources

\* The variable names of the sources.
AnalyzerNames == {"Y", "z", "W"}

\* The values n consecutive calls of Date.now() can return after from.
ClockReadings(n, from) ==
  { r \in [1..n -> from..MaxClock] : \A i \in 1..(n - 1) : r[i] <= r[i + 1] }

AnalyzerInit ==
  /\ ParserIdle
  /\ source \in AnalyzerSources
  /\ ast = parse(tokenize(source))
  /\ AnalyzerIdle
  /\ GeneratorIdle
  /\ AppIdle
  /\ LexerIdle
  /\ AuxIdle

\* analyze(ast) is entered: the reset of lines 29-34
AnalyzeEnter ==
  /\ anPhase = "idle"
  /\ analyzer' = analyzeReset(analyzer)
  /\ anChild' = 0
  /\ anPhase' = "running"
  /\ UNCHANGED <<anResult, now, anCalls, inputVars, parserVars, generatorVars, appVars, lexerVars, auxVars>>

\* default: one iteration of node.children?.forEach on the Program node
AnalyzeChild ==
  /\ anPhase = "running"
  /\ anChild < Len(ast.children)
  /\ \E readings \in ClockReadings(enterCount(ast.children[anChild + 1]), now) :
       /\ analyzer' = analyzeNode(ast.children[anChild + 1],
                                  [analyzer EXCEPT !.clock = readings])
       /\ now' = IF readings = <<>> THEN now ELSE readings[Len(readings)]
  /\ anChild' = anChild + 1
  /\ UNCHANGED <<anPhase, anResult, anCalls, inputVars, parserVars, generatorVars, appVars, lexerVars, auxVars>>

\* this.checkUnusedVariables(); return { symbolTable, errors }
AnalyzeReturn ==
  /\ anPhase = "running"
  /\ anChild = Len(ast.children)
  /\ analyzer' = checkUnusedVariables(analyzer)
  /\ anResult' = [symbolTable |-> analyzer'.symbolTable, errors |-> analyzer'.errors]
  /\ anPhase' = "done"
  /\ UNCHANGED <<anChild, now, anCalls, inputVars, parserVars, generatorVars, appVars, lexerVars, auxVars>>

AnalyzerNext == AnalyzeEnter \/ AnalyzeChild \/ AnalyzeReturn

SpecAnalyzer == AnalyzerInit /\ [][AnalyzerNext]_vars

\* The texts of the diagnostics, written out.
RedeclarationText(line, name) ==
  "Line " \o ToString(line) \o ": Variable '" \o name
    \o "' already declared in current scope"

UndeclaredAssignmentText(line, name) ==
  "Line " \o ToString(line) \o ": Variable '" \o name \o "' used before declaration"

UndeclaredUseText(line, name) ==
  "Line " \o ToString(line) \o ": Variable or function '" \o name
    \o "' used before declaration"

UninitializedUseText(line, name) ==
  "Line " \o ToString(line) \o ": Variable '" \o name \o "' used before initialization"

UnusedText(name) == "Warning: Variable '" \o name \o "' declared but never used"

IsRedeclarationText(message) ==
  \E l \in 0..(MaxLines + 1), n \in AnalyzerNames : message = RedeclarationText(l, n)

IsUnusedText(message) == \E n \in AnalyzerNames : message = UnusedText(n)

\* The child of the Program node the next iteration of analyze handles.
NextChild == ast.children[anChild + 1]

HasNextChild == anPhase = "running" /\ anChild < Len(ast.children)

\* The name a Declaration or Assignment node declares or assigns.
TargetOf(node) == childAt(node, 0).value

\* A Declaration of name is among the first k children of the Program node.
DeclaredAtTopLevel(name, k) ==
  \E i \in 1..k : ast.children[i].type = "Declaration"
                  /\ childAt(ast.children[i], 0) # Null
                  /\ TargetOf(ast.children[i]) = name

(***************************************************************************)
(* C5  Symbol-table uniqueness: in the symbol table analyze returns, for   *)
(* every AST and whatever values the clock returns when scope ids are      *)
(* built, no two entries have the same (name, scope) pair.                 *)
(***************************************************************************)
C5_SymbolTableUniqueness ==
  anPhase = "done" =>
    \A i, j \in 1..Len(anResult.symbolTable) :
      (/\ anResult.symbolTable[i].name = anResult.symbolTable[j].name
       /\ anResult.symbolTable[i].scope = anResult.symbolTable[j].scope) => i = j

(***************************************************************************)
(* C6  Block scope does not leak: once an IfStatement or WhileStatement is *)
(* analyzed, a name declared only inside such constructs does not resolve  *)
(* for a later statement outside them; `if (1) { int Y = 2; }` followed by *)
(* `Y = 3;` yields an undeclared diagnostic for the assignment.            *)
(***************************************************************************)
C6_BlockScopeDoesNotLeak ==
  /\ anPhase = "running" =>
       \A n \in AnalyzerNames :
         ~DeclaredAtTopLevel(n, anChild) => findSymbolInScope(analyzer, n) = NoSymbol
  /\ (anPhase = "done" /\ source = "if (1) { int Y = 2; }\nY = 3;") =>
       \E k \in 1..Len(anResult.errors) :
         anResult.errors[k] = UndeclaredAssignmentText(2, "Y")

(***************************************************************************)
(* C7  A Declaration of a name already declared in the enclosing scope     *)
(* yields exactly one redeclaration diagnostic and is dropped: no symbol-  *)
(* table entry is added, the entries stay as they are and the initializer  *)
(* is not analyzed; also when an if/while was analyzed between the two     *)
(* declarations.                                                           *)
(***************************************************************************)
C7_RedeclarationDropped ==
  (/\ HasNextChild
   /\ NextChild.type = "Declaration"
   /\ childAt(NextChild, 0) # Null
   /\ DeclaredAtTopLevel(TargetOf(NextChild), anChild))
    => LET after == handleDeclaration(NextChild, analyzer)
       IN  /\ Len(after.errors) = Len(analyzer.errors) + 1
           /\ SubSeq(after.errors, 1, Len(analyzer.errors)) = analyzer.errors
           /\ IsRedeclarationText(after.errors[Len(after.errors)])
           /\ after.symbolTable = analyzer.symbolTable
           /\ after.variableUsage = analyzer.variableUsage

(***************************************************************************)
(* C8  As stated: the line a redeclaration diagnostic carries is the line  *)
(* of the first declaration of the name in the scope, not the line of the  *)
(* redeclaring statement, for two declarations on different lines.         *)
(***************************************************************************)
\* The next child declares a name the current scope already holds.
NextChildRedeclares ==
  /\ HasNextChild
  /\ NextChild.type = "Declaration"
  /\ childAt(NextChild, 0) # Null
  /\ childAt(NextChild, 0).type = "Identifier"
  /\ TargetOf(NextChild) \in scopesGet(analyzer.scopes, analyzer.currentScope)

\* The line of the entry of name in the current scope: its first declaration.
FirstDeclarationLine(name) ==
  findInTable(analyzer.symbolTable, name, analyzer.currentScope).line

C8_RedeclarationCitesFirstLine ==
  (NextChildRedeclares /\ FirstDeclarationLine(TargetOf(NextChild)) # lineOf(childAt(NextChild, 0)))
    => handleDeclaration(NextChild, analyzer).errors
         = Append(analyzer.errors,
                  RedeclarationText(FirstDeclarationLine(TargetOf(NextChild)),
                                    TargetOf(NextChild)))

(***************************************************************************)
(* C8  Amended: the line a redeclaration diagnostic carries is the line of *)
(* the redeclaring declaration's name, which for declarations on different *)
(* lines is later than the line of the entry recorded for that name.       *)
(***************************************************************************)
\* The lines of the Declarations of name in a tree.
RECURSIVE DeclarationLines(_, _), DeclarationLinesAll(_, _, _)
DeclarationLinesAll(children, i, name) ==
  IF i > Len(children) THEN {}
  ELSE DeclarationLines(children[i], name) \cup DeclarationLinesAll(children, i + 1, name)

DeclarationLines(node, name) ==
  (IF node.type = "Declaration" /\ childAt(node, 0) # Null /\ TargetOf(node) = name
   THEN {lineOf(childAt(node, 0))} ELSE {})
    \cup DeclarationLinesAll(node.children, 1, name)

C8_RedeclarationCitesRedeclaringLine ==
  /\ NextChildRedeclares
       => handleDeclaration(NextChild, analyzer).errors
            = Append(analyzer.errors,
                     RedeclarationText(lineOf(childAt(NextChild, 0)), TargetOf(NextChild)))
  /\ \A k \in 1..Len(analyzer.errors), l \in 0..(MaxLines + 1), n \in AnalyzerNames :
       analyzer.errors[k] = RedeclarationText(l, n)
         => /\ l \in DeclarationLines(ast, n)
            /\ \E e \in 1..Len(analyzer.symbolTable) :
                 analyzer.symbolTable[e].name = n /\ analyzer.symbolTable[e].line < l

\* analyze returned a redeclaration diagnostic citing line 2 for a name whose
\* recorded declaration is on line 1.
C8_Witness ==
  /\ anPhase = "done"
  /\ \E k \in 1..Len(anResult.errors) : anResult.errors[k] = RedeclarationText(2, "Y")
  /\ \E e \in 1..Len(anResult.symbolTable) :
       anResult.symbolTable[e].name = "Y" /\ anResult.symbolTable[e].line = 1

(***************************************************************************)
(* C9  Unused-variable post-pass: every entry of the symbol table whose    *)
(* name was not marked used gets exactly one unused-variable diagnostic,   *)
(* also when two scopes declare the same name; these diagnostics come      *)
(* after every traversal diagnostic and are in declaration order.          *)
(***************************************************************************)
\* The name was marked used during the traversal.
MarkedUsed(name) ==
  \E k \in 1..Len(analyzer.variableUsage) :
    analyzer.variableUsage[k].name = name /\ analyzer.variableUsage[k].used

\* One unused-variable diagnostic per unused entry, in the order of the table.
RECURSIVE ExpectedUnused(_, _)
ExpectedUnused(symbolTable, k) ==
  IF k > Len(symbolTable) THEN <<>>
  ELSE (IF ~MarkedUsed(symbolTable[k].name) THEN <<UnusedText(symbolTable[k].name)>>
        ELSE <<>>) \o ExpectedUnused(symbolTable, k + 1)

C9_UnusedPostPass ==
  anPhase = "done" =>
    LET errors   == anResult.errors
        warnings == SelectSeq(errors, IsUnusedText)
    IN  /\ warnings = ExpectedUnused(anResult.symbolTable, 1)
        /\ SubSeq(errors, Len(errors) - Len(warnings) + 1, Len(errors)) = warnings

(***************************************************************************)
(* C10  An Identifier in use position is resolved through the scope chain, *)
(* whatever its name: unresolved, an undeclared-use diagnostic is          *)
(* appended; resolved but not initialized, a use-before-initialization     *)
(* diagnostic is appended; otherwise the variable is marked used, so a     *)
(* variable a later expression reads gets no unused-variable diagnostic.   *)
(***************************************************************************)
\* The usage record of name is there and says initialized.
Initialized(st, name) ==
  \E k \in 1..Len(st.variableUsage) :
    st.variableUsage[k].name = name /\ st.variableUsage[k].initialized

UsedIn(st, name) ==
  \E k \in 1..Len(st.variableUsage) :
    st.variableUsage[k].name = name /\ st.variableUsage[k].used

C10_IdentifierUseResolved ==
  /\ anPhase = "running" =>
       \A n \in AnalyzerNames :
         LET use   == Node("Identifier", n, <<>>, [line |-> 1, column |-> 1])
             after == handleIdentifierUsage(use, analyzer)
         IN  IF findSymbolInScope(analyzer, n) = NoSymbol
             THEN after.errors = Append(analyzer.errors, UndeclaredUseText(1, n))
             ELSE IF ~Initialized(analyzer, n)
             THEN after.errors = Append(analyzer.errors, UninitializedUseText(1, n))
             ELSE UsedIn(after, n)
  /\ (anPhase = "done" /\ source = "int z = 5;\nint W = z;") =>
       \A k \in 1..Len(anResult.errors) : anResult.errors[k] # UnusedText("z")

(***************************************************************************)
(* The App as a state machine: runCompilation on the code in the editor.   *)
(* The function is suspended at each `await sleep(...)`; what it does      *)
(* between two awaits is one action.  Each setX(...) is taken as the new   *)
(* value of the state x.  A new SemanticAnalyzer and a new CodeGenerator   *)
(* are constructed in each run.                                            *)
(***************************************************************************)
\* code.trim(): whitespace removed at both ends
RECURSIVE trimStart(_), trimEnd(_)
trimStart(s) ==
  IF s # "" /\ charAt(s, 0) \in Whitespace \cup {"\n"} THEN trimStart(sliceFrom(s, 1)) ELSE s

trimEnd(s) ==
  IF s # "" /\ charAt(s, Len(s) - 1) \in Whitespace \cup {"\n"}
  THEN trimEnd(slice(s, 0, Len(s) - 1)) ELSE s

trim(s) == trimEnd(trimStart(s))

\* prev.map((stage, i) => ({ ...stage, active: i === k, completed: i < n }))
\* with i from 0; k = -1 for active: false.
stagesMap(k, n) == [i \in 1..4 |-> [active |-> (i - 1 = k), completed |-> (i - 1 < n)]]

\* Pieces of source text the malformed sources are made of.
SourceFragments ==
  { "int ", "x", " = ", "1", ";", "(", ")", "{", "}", "if ", "while ", "return ",
    " * ", "@", "\"s", "//", "\n" }

\* The concatenations of at most n fragments.
RECURSIVE Concatenations(_)
Concatenations(n) ==
  IF n = 0 THEN {""}
  ELSE LET shorter == Concatenations(n - 1)
       IN  shorter \cup { s \o f : s \in shorter, f \in SourceFragments }

MalformedSources == Concatenations(MaxFragments)

\* Sources the analyzer has diagnostics for, and one it has none for.
DiagnosedSources ==
  { "Y = 3;",
    "int Y = 1;\nint Y = 2;",
    "int W = Y;",
    "if (Q) { Y = 3; }",
    "int Y = 1;\nY = 3;" }

AppSources == MalformedSources \cup DiagnosedSources

AppInit ==
  /\ source \in AppSources
  /\ ast = EmptyProgram
  /\ ParserIdle
  /\ AnalyzerIdle
  /\ GeneratorIdle
  /\ AppIdle
  /\ LexerIdle
  /\ AuxIdle

\* runCompilation is called: up to the first await
RunCompilation ==
  /\ pc \in {"idle", "done"}
  /\ IF trim(source) = ""
     THEN UNCHANGED appVars
     ELSE /\ isCompiling' = TRUE
          /\ stages' = stagesMap(0, 0)
          /\ ui' = NoOutputs
          /\ run' = [NoRun EXCEPT !.code = source]
          /\ pc' = "lexing"
  /\ UNCHANGED <<inputVars, parserVars, analyzerVars, generatorVars, lexerVars, auxVars>>

\* Stage 1, after sleep(800): tokenize, setTokens, stage 0 completed
LexicalAnalysis ==
  /\ pc = "lexing"
  /\ run' = [run EXCEPT !.generatedTokens = tokenize(run.code)]
  /\ ui' = [ui EXCEPT !.tokens = run'.generatedTokens]
  /\ stages' = [i \in 1..4 |-> [active |-> FALSE, completed |-> (i - 1 = 0)]]
  /\ pc' = "lexed"
  /\ UNCHANGED <<isCompiling, inputVars, parserVars, analyzerVars, generatorVars, lexerVars, auxVars>>

\* after sleep(400): stage k becomes active
StageBegins(k, from, to) ==
  /\ pc = from
  /\ stages' = stagesMap(k, k)
  /\ pc' = to
  /\ UNCHANGED <<isCompiling, ui, run, inputVars, parserVars, analyzerVars, generatorVars, lexerVars, auxVars>>

SyntaxAnalysisBegins == StageBegins(1, "lexed", "parsing")

\* Stage 2 marked completed without setAst.
SyntaxAnalysis_unpublished ==
  /\ pc = "parsing"
  /\ run' = [run EXCEPT !.generatedAst = parse(run.generatedTokens)]
  /\ stages' = stagesMap(-1, 2)
  /\ pc' = "parsed"
  /\ UNCHANGED <<ui, isCompiling, inputVars, parserVars, analyzerVars, generatorVars, lexerVars, auxVars>>

\* Stage 2, after sleep(800): new Parser(generatedTokens).parse(), setAst
SyntaxAnalysis ==
  /\ pc = "parsing"
  /\ run' = [run EXCEPT !.generatedAst = parse(run.generatedTokens)]
  /\ ui' = [ui EXCEPT !.ast = run'.generatedAst]
  /\ stages' = stagesMap(-1, 2)
  /\ pc' = "parsed"
  /\ UNCHANGED <<isCompiling, inputVars, parserVars, analyzerVars, generatorVars, lexerVars, auxVars>>

SemanticAnalysisBegins == StageBegins(2, "parsed", "analyzing")

\* Stage 3, after sleep(800): new SemanticAnalyzer().analyze(generatedAst)
SemanticAnalysis ==
  /\ pc = "analyzing"
  /\ \E readings \in ClockReadings(enterCount(run.generatedAst), 1) :
       LET published(st) ==
             ui' = [ui EXCEPT !.symbolTable = st.symbolTable,
                              !.semanticErrors = st.errors]
       IN  published(analyze(run.generatedAst, NewAnalyzer(readings)))
  /\ stages' = stagesMap(-1, 3)
  /\ pc' = "analyzed"
  /\ UNCHANGED <<isCompiling, run, inputVars, parserVars, analyzerVars, generatorVars, lexerVars, auxVars>>

CodeGenerationBegins == StageBegins(3, "analyzed", "generating")

\* Stage 4 run only for a source without diagnostics.
CodeGeneration_gated ==
  /\ pc = "generating"
  /\ ui' = [ui EXCEPT !.intermediateCode =
                         IF ui.semanticErrors = <<>>
                         THEN generate(run.generatedAst, [code |-> <<>>, tempCounter |-> 0]).code
                         ELSE <<>>]
  /\ stages' = [i \in 1..4 |-> [active |-> FALSE, completed |-> TRUE]]
  /\ isCompiling' = FALSE
  /\ pc' = "done"
  /\ UNCHANGED <<run, inputVars, parserVars, analyzerVars, generatorVars, lexerVars, auxVars>>

\* Stage 4, after sleep(800): new CodeGenerator().generate(generatedAst),
\* setIntermediateCode, every stage completed; finally setIsCompiling(false)
CodeGeneration ==
  /\ pc = "generating"
  /\ ui' = [ui EXCEPT !.intermediateCode =
                         generate(run.generatedAst, [code |-> <<>>, tempCounter |-> 0]).code]
  /\ stages' = [i \in 1..4 |-> [active |-> FALSE, completed |-> TRUE]]
  /\ isCompiling' = FALSE
  /\ pc' = "done"
  /\ UNCHANGED <<run, inputVars, parserVars, analyzerVars, generatorVars, lexerVars, auxVars>>

Next ==
  \/ RunCompilation
  \/ LexicalAnalysis
  \/ SyntaxAnalysisBegins
  \/ SyntaxAnalysis
  \/ SemanticAnalysisBegins
  \/ SemanticAnalysis
  \/ CodeGenerationBegins
  \/ CodeGeneration

Spec == AppInit /\ [][Next]_vars

(***************************************************************************)
(* C11  No stage throws for malformed source: for every source tokenize    *)
(* returns a token list, and parse, analyze and generate each return a     *)
(* value, also for degenerate subtrees (a Declaration without identifier,  *)
(* a BinaryExpression without children); unknown characters give no token. *)
(* A stage would throw where it reads a property of null or undefined:     *)
(* peek and previous outside the token list have no value in this model,   *)
(* and analyzeNode and generateNode read node.type of every child they are *)
(* given, so no children list may hold a null.                             *)
(***************************************************************************)
TokenTypes == {"keyword", "identifier", "operator", "literal", "delimiter", "comment"}

HasChar(s, ch) == \E i \in 0..(Len(s) - 1) : charAt(s, i) = ch

IsTokenList(ts) ==
  \A i \in 1..Len(ts) :
    /\ ts[i].type \in TokenTypes
    /\ ts[i].value # ""
    /\ ts[i].line >= 1 /\ ts[i].column >= 1
    /\ (ts[i].type \notin {"literal", "comment"} \/ charAt(ts[i].value, 0) \in Digits)
         => ~HasChar(ts[i].value, "@")

\* No children list of the tree holds a null, and the leaves have a text.
RECURSIVE NoNullNode(_)
NoNullNode(node) ==
  /\ node # Null
  /\ node.type # "<null>"
  /\ node.type \in {"Identifier", "Literal"} => node.value # NoValue
  /\ node.type = "BinaryExpression" => Len(node.children) \in {0, 2}
  /\ \A i \in 1..Len(node.children) : NoNullNode(node.children[i])

IsInstructionList(code) ==
  \A i \in 1..Len(code) :
    /\ DOMAIN code[i] = {"operation", "operand1", "operand2", "result"}
    /\ code[i].operation # NoValue /\ code[i].operation # ""

StagePassed(from) ==
  pc \in CASE from = "lexed" -> {"lexed", "parsing", "parsed", "analyzing", "analyzed",
                                 "generating", "done"}
           [] from = "parsed" -> {"parsed", "analyzing", "analyzed", "generating", "done"}
           [] from = "analyzed" -> {"analyzed", "generating", "done"}
           [] from = "done" -> {"done"}

C11_NoStageThrows ==
  /\ StagePassed("lexed") =>
       /\ ui.tokens = tokenize(source)
       /\ IsTokenList(ui.tokens)
       /\ stages[1].completed
  /\ StagePassed("parsed") =>
       /\ ui.ast # Null
       /\ ui.ast.type = "Program"
       /\ NoNullNode(ui.ast)
       /\ stages[2].completed
  /\ StagePassed("analyzed") =>
       /\ DOMAIN ui.symbolTable = 1..Len(ui.symbolTable)
       /\ DOMAIN ui.semanticErrors = 1..Len(ui.semanticErrors)
       /\ \A k \in 1..Len(ui.semanticErrors) : Len(ui.semanticErrors[k]) > 0
       /\ stages[3].completed
  /\ StagePassed("done") =>
       /\ IsInstructionList(ui.intermediateCode)
       /\ \A i \in 1..4 : stages[i].completed
       /\ ~isCompiling

\* A run on a source with an unknown character and a Declaration without
\* identifier, or with a BinaryExpression without children, ran to its end.
C11_Witness ==
  /\ pc = "done"
  /\ HasChar(source, "@")
  /\ \E i \in 1..Len(ui.ast.children) :
       \/ ui.ast.children[i].type = "Declaration" /\ ui.ast.children[i].children = <<>>
       \/ /\ Len(ui.ast.children[i].children) = 2
          /\ ui.ast.children[i].children[2].type = "BinaryExpression"
          /\ ui.ast.children[i].children[2].children = <<>>

(***************************************************************************)
(* tokenize as a state machine: calls made one after the other, the for    *)
(* loop over the lines taken one iteration at a time.  tokens, lines and   *)
(* lineNum are locals of the call; KEYWORDS, OPERATORS and DELIMITERS are  *)
(* the only module-level values and are never written.                     *)
(***************************************************************************)
OperatorSources ==
  { "a==b!=c<=d>=e\n&&||++--\n+=-=*=/=<<>>",
    "a===b\nx=-1//==\na->b<<=c" }

StringSources ==
  { "x = \"ab\ny", "\"a\\\"b\nint y", "\"a\\\\\" z \"\\" }

NumberSources == { "x = 1.2.3;", "a1.5 .5 1..2 7." }

LexerSources ==
  { "int x;", "x\n= 1", "a@b", "//c\n\"s", "" }
    \cup OperatorSources \cup StringSources \cup NumberSources

\* The locals as declared with the tokens kept from the call before.
tokenizeLocals_retained(code, lx) ==
  [phase |-> "running", code |-> code, tokens |-> lx.tokens, lines |-> split(code),
   lineNum |-> 0]

\* const tokens = []; const lines = code.split('\n'); let lineNum = 0
tokenizeLocals(code, lx) ==
  [phase |-> "running", code |-> code, tokens |-> <<>>, lines |-> split(code),
   lineNum |-> 0]

LexerInit ==
  /\ source = ""
  /\ ast = EmptyProgram
  /\ ParserIdle
  /\ AnalyzerIdle
  /\ GeneratorIdle
  /\ AppIdle
  /\ LexerIdle
  /\ AuxIdle

TokenizeEnter ==
  /\ lexer.phase = "idle"
  /\ Len(lexCalls) < MaxTokenizeCalls
  /\ \E code \in LexerSources : lexer' = tokenizeLocals(code, lexer)
  /\ UNCHANGED <<lexCalls, inputVars, parserVars, analyzerVars, generatorVars, appVars, auxVars>>

\* One iteration of the for loop: the while loop over the line
TokenizeLine ==
  /\ lexer.phase = "running"
  /\ lexer.lineNum < Len(lexer.lines)
  /\ lexer' = [lexer EXCEPT !.tokens = @ \o scanLine(lexer.lines[lexer.lineNum + 1],
                                                      lexer.lineNum, 0),
                            !.lineNum = @ + 1]
  /\ UNCHANGED <<lexCalls, inputVars, parserVars, analyzerVars, generatorVars, appVars, auxVars>>

\* return tokens
TokenizeReturn ==
  /\ lexer.phase = "running"
  /\ lexer.lineNum >= Len(lexer.lines)
  /\ lexCalls' = Append(lexCalls, [code |-> lexer.code, tokens |-> lexer.tokens])
  /\ lexer' = [lexer EXCEPT !.phase = "idle"]
  /\ UNCHANGED <<inputVars, parserVars, analyzerVars, generatorVars, appVars, auxVars>>

LexerNext == TokenizeEnter \/ TokenizeLine \/ TokenizeReturn

SpecLexer == LexerInit /\ [][LexerNext]_vars

(***************************************************************************)
(* C12  Tokenizer determinism and statelessness: two calls of tokenize on  *)
(* the same source return the same token sequence (kinds, texts, lines and *)
(* columns, in order), whatever calls were made in between.                *)
(***************************************************************************)
C12_TokenizerDeterminism ==
  /\ \A i, j \in 1..Len(lexCalls) :
       lexCalls[i].code = lexCalls[j].code => lexCalls[i].tokens = lexCalls[j].tokens
  /\ \A i \in 1..Len(lexCalls) : lexCalls[i].tokens = tokenize(lexCalls[i].code)

\* The same source was tokenized before and after another one.
C12_Witness ==
  /\ Len(lexCalls) = 3
  /\ lexCalls[1].code = lexCalls[3].code
  /\ lexCalls[2].code # lexCalls[1].code
  /\ Len(lexCalls[1].tokens) >= 2
  /\ Len(lexCalls[2].tokens) >= 2

(***************************************************************************)
(* One SemanticAnalyzer instance on which analyze is called several times. *)
(* analyze is synchronous: a call is one action.  Date.now() does not go   *)
(* back between calls.                                                     *)
(***************************************************************************)
AnalyzeCallSources ==
  { "int Y = 1;", "if (1) { int Y = 2; }", "Y = 3;\nint W = Y;", "while (Y) Y = 2;" }

AnalyzerCallsInit ==
  /\ source = ""
  /\ ast = EmptyProgram
  /\ ParserIdle
  /\ AnalyzerIdle
  /\ GeneratorIdle
  /\ AppIdle
  /\ LexerIdle
  /\ AuxIdle

\* analyzer.analyze(root), from the entry to the return
AnalyzeCall ==
  /\ Len(anCalls) < MaxAnalyzeCalls
  /\ \E src \in AnalyzeCallSources :
       LET called(root) ==
             /\ ast' = root
             /\ \E readings \in ClockReadings(enterCount(root), now) :
                  LET returned(st) ==
                        /\ analyzer' = st
                        /\ anResult' = [symbolTable |-> st.symbolTable, errors |-> st.errors]
                        /\ anCalls' = Append(anCalls, [ast |-> root,
                                                       symbolTable |-> st.symbolTable,
                                                       errors |-> st.errors])
                  IN  /\ returned(analyze(root, [analyzer EXCEPT !.clock = readings]))
                      /\ now' = IF readings = <<>> THEN now ELSE readings[Len(readings)]
       IN  /\ source' = src
           /\ called(parse(tokenize(src)))
  /\ UNCHANGED <<anChild, anPhase, parserVars, generatorVars, appVars, lexerVars, auxVars>>

SpecAnalyzerCalls == AnalyzerCallsInit /\ [][AnalyzeCall]_vars

(***************************************************************************)
(* C13  analyze is idempotent across calls on one instance: two calls on   *)
(* the same AST return the same diagnostics and the same symbol table      *)
(* entries in the same order, whatever was analyzed before or in between   *)
(* and whatever the clock read while the scope ids were built.             *)
(***************************************************************************)
C13_AnalyzeIdempotent ==
  \A i, j \in 1..Len(anCalls) :
    anCalls[i].ast = anCalls[j].ast =>
      /\ anCalls[i].errors = anCalls[j].errors
      /\ anCalls[i].symbolTable = anCalls[j].symbolTable

\* The part that does not depend on the clock: the diagnostics, and the
\* entries but for their scope ids.
withoutScope(symbolTable) ==
  [k \in 1..Len(symbolTable) |-> [symbolTable[k] EXCEPT !.scope = ""]]

AnalyzeIdempotentButScopeIds ==
  \A i, j \in 1..Len(anCalls) :
    anCalls[i].ast = anCalls[j].ast =>
      /\ anCalls[i].errors = anCalls[j].errors
      /\ withoutScope(anCalls[i].symbolTable) = withoutScope(anCalls[j].symbolTable)

(***************************************************************************)
(* C14  The generator emits straight-line IR only: every instruction has   *)
(* operation DECLARE, ASSIGN or the operator text of a BinaryExpression    *)
(* node of the AST; If, While, Return and Program nodes emit nothing of    *)
(* their own, and what their children emit appears in child order.         *)
(* expectedOperations reads the operations off the tree in that order.     *)
(***************************************************************************)
RECURSIVE expectedOperations(_), expectedOperationsAll(_, _)
expectedOperationsAll(children, i) ==
  IF i > Len(children) THEN <<>>
  ELSE expectedOperations(children[i]) \o expectedOperationsAll(children, i + 1)

expectedOperations(node) ==
  CASE node.type = "Declaration" ->
         IF Len(node.children) = 0 THEN <<>>
         ELSE <<"DECLARE">> \o (IF Len(node.children) > 1
                                 THEN expectedOperations(node.children[2]) \o <<"ASSIGN">>
                                 ELSE <<>>)
    [] node.type = "Assignment" ->
         IF Len(node.children) > 1
         THEN expectedOperations(node.children[2]) \o <<"ASSIGN">>
         ELSE <<>>
    [] node.type = "BinaryExpression" ->
         IF Len(node.children) > 1
         THEN expectedOperations(node.children[1]) \o expectedOperations(node.children[2])
                \o <<node.value>>
         ELSE <<>>
    [] node.type \in {"Identifier", "Literal"} -> <<>>
    [] OTHER -> expectedOperationsAll(node.children, 1)

\* The operator texts of the BinaryExpression nodes of a tree.
RECURSIVE operatorTexts(_)
operatorTexts(node) ==
  (IF node.type = "BinaryExpression" THEN {node.value} ELSE {})
    \cup UNION { operatorTexts(node.children[i]) : i \in 1..Len(node.children) }

operationsOf(code) == [k \in 1..Len(code) |-> code[k].operation]

ControlFlowTypes == {"IfStatement", "WhileStatement", "ReturnStatement"}

C14_StraightLineOnly ==
  /\ genPhase = "running" =>
       /\ operationsOf(generator.code)
            = expectedOperationsAll(SubSeq(ast.children, 1, genChild), 1)
       /\ \A k \in 1..Len(generator.code) :
            generator.code[k].operation \in {"DECLARE", "ASSIGN"} \cup operatorTexts(ast)
  /\ genPhase = "done" =>
       /\ operationsOf(genResult) = expectedOperations(ast)
       /\ \A k \in 1..Len(genResult) :
            genResult[k].operation \in {"DECLARE", "ASSIGN"} \cup operatorTexts(ast)

\* generate returned for a Program with an IfStatement whose condition and
\* body both emit, and a WhileStatement holding a ReturnStatement that emits.
C14_Witness ==
  /\ genPhase = "done"
  /\ \E i, j \in 1..Len(ast.children) :
       /\ ast.children[i].type = "IfStatement"
       /\ Len(expectedOperationsAll(ast.children[i].children, 1)) >= 3
       /\ ast.children[j].type = "WhileStatement"
       /\ \E k \in 1..Len(ast.children[j].children) :
            /\ ast.children[j].children[k].type = "ReturnStatement"
            /\ Len(expectedOperations(ast.children[j].children[k])) >= 1
  /\ Len(genResult) >= 4

(***************************************************************************)
(* C15  Code generation is not gated on analyzer success: a compilation    *)
(* run publishes the instruction list generate returns for the parsed AST  *)
(* whatever diagnostics analyze returned, and generate validates nothing:  *)
(* every top-level assignment with a right-hand side is lowered to an      *)
(* ASSIGN to its target, declared or not.                                  *)
(***************************************************************************)
C15_GenerationNotGated ==
  pc = "done" =>
    /\ ui.ast = parse(tokenize(source))
    /\ ui.intermediateCode = generate(ui.ast, [code |-> <<>>, tempCounter |-> 0]).code
    /\ \A i \in 1..Len(ui.ast.children) :
         (ui.ast.children[i].type = "Assignment" /\ Len(ui.ast.children[i].children) = 2) =>
           \E k \in 1..Len(ui.intermediateCode) :
             /\ ui.intermediateCode[k].operation = "ASSIGN"
             /\ ui.intermediateCode[k].result = ui.ast.children[i].children[1].value

\* A run ended with a 'used before declaration' diagnostic for Y, no entry
\* for Y in the symbol table, and the assignment to Y lowered.
C15_Witness ==
  /\ pc = "done"
  /\ \E k \in 1..Len(ui.semanticErrors) :
       ui.semanticErrors[k] = UndeclaredAssignmentText(1, "Y")
  /\ \A k \in 1..Len(ui.symbolTable) : ui.symbolTable[k].name # "Y"
  /\ \E k \in 1..Len(ui.intermediateCode) :
       ui.intermediateCode[k] = Instruction("ASSIGN", "3", NoValue, "Y")

(***************************************************************************)
(* C16  Scope push/pop discipline: the current scope after an IfStatement  *)
(* or WhileStatement has been processed is the one before it was entered,  *)
(* so between the top-level statements of a Program the current scope is   *)
(* 'global', and the current scope is always one registered on entry.      *)
(***************************************************************************)
C16_ScopeDiscipline ==
  anPhase \in {"running", "done"} =>
    /\ analyzer.currentScope = "global"
    /\ analyzer.currentScope \in DOMAIN analyzer.scopes

(***************************************************************************)
(* C17  Binary levels are left-associative, multiplication binds tighter   *)
(* than addition and addition tighter than comparison: `a - b - c` parses  *)
(* to BinaryExpression('-', BinaryExpression('-', a, b), c), `a + b * c`   *)
(* to BinaryExpression('+', a, BinaryExpression('*', b, c)), and every     *)
(* operator token of the expression levels that is consumed gives its      *)
(* BinaryExpression node.                                                  *)
(***************************************************************************)
ExpressionOps == ComparisonOps \cup AdditionOps \cup MultiplicationOps

\* The number of BinaryExpression nodes of a tree.
RECURSIVE binaryNodes(_), binaryNodesAll(_, _)
binaryNodesAll(children, i) ==
  IF i > Len(children) THEN 0 ELSE binaryNodes(children[i]) + binaryNodesAll(children, i + 1)

binaryNodes(node) ==
  (IF node.type = "BinaryExpression" THEN 1 ELSE 0) + binaryNodesAll(node.children, 1)

expressionOperatorTokens(t) ==
  Cardinality({ i \in 1..Len(t) : t[i].type = "operator" /\ t[i].value \in ExpressionOps })

ParsedFrom(src) == parseResult # Null /\ tokens = stripComments(tokenize(src))

C17_LeftAssociativePrecedence ==
  /\ ParsedFrom("x = a - b - c;") =>
       LET e == FirstExpression(parseResult)
       IN  /\ IsBinary(e, "-")
           /\ IsBinary(e.children[1], "-")
           /\ IsIdentifier(e.children[1].children[1], "a")
           /\ IsIdentifier(e.children[1].children[2], "b")
           /\ IsIdentifier(e.children[2], "c")
  /\ ParsedFrom("x = a + b * c;") =>
       LET e == FirstExpression(parseResult)
       IN  /\ IsBinary(e, "+")
           /\ IsIdentifier(e.children[1], "a")
           /\ IsBinary(e.children[2], "*")
           /\ IsIdentifier(e.children[2].children[1], "b")
           /\ IsIdentifier(e.children[2].children[2], "c")
  /\ \A src \in SampleSources :
       ParsedFrom(src) => binaryNodes(parseResult) = expressionOperatorTokens(tokens)

(***************************************************************************)
(* C18  Syntax leniency without advancing: where an expected token is not  *)
(* the next token (a missing ';', '(', ')' or '}', a missing '=' after a   *)
(* declared or assigned name) the parser does not raise and does not move  *)
(* the cursor past the token that is there: the following parsing step     *)
(* sees that token.  Stated for every cursor position of the token list.   *)
(***************************************************************************)
IsToken(t, cur, type, value) == check(t, cur, type) /\ peek(t, cur).value = value

C18_LenientWithoutAdvancing ==
  \A c \in 0..Len(tokens) :
    \* consume of a delimiter that is not there
    /\ \A d \in {";", "(", ")", "{", "}"} :
         ~IsToken(tokens, c, "delimiter", d) => consume(tokens, c, "delimiter", d) = c
    \* no '=' after the name: the next step is consume(';') at the same token
    /\ (check(tokens, c, "identifier") /\ ~IsToken(tokens, c + 1, "operator", "=")) =>
         /\ parseDeclaration(tokens, c, "int").cur = consume(tokens, c + 1, "delimiter", ";")
         /\ parseAssignment(tokens, c).cur = consume(tokens, c + 1, "delimiter", ";")
    \* no literal, name or '(' where a primary expression is expected
    /\ (/\ ~check(tokens, c, "literal")
        /\ ~check(tokens, c, "identifier")
        /\ ~IsToken(tokens, c, "delimiter", "(")) => parsePrimary(tokens, c).cur = c

(***************************************************************************)
(* C19  Assignment analysis: if the target does not resolve, exactly one   *)
(* 'used before declaration' diagnostic is appended and the right-hand     *)
(* side is not analyzed; otherwise the variable is marked used and         *)
(* initialized, the right-hand side is analyzed, and a type-mismatch       *)
(* diagnostic is appended if and only if the right-hand side is a Literal  *)
(* whose inferred type is not compatible with the declared type.           *)
(* Checked for the assignment analyze handles next, and after the last     *)
(* statement of every source of at most MaxProbedStatements statements     *)
(* (the sources are closed under prefixes, so these are the states between *)
(* two statements) for assignments of each name to each right-hand side of *)
(* RightSides.                                                             *)
(***************************************************************************)
AssignMismatchText(line, rightType, type, name) ==
  "Line " \o ToString(line) \o ": Type mismatch - cannot assign " \o rightType \o " to "
    \o type \o " variable '" \o name \o "'"

\* The literals of the right-hand sides with the type inferType gives them,
\* and the pairs (declared type, literal type) isCompatible accepts.
LiteralTypes == [v \in {"3", "2.5", "\"s\""} |->
                   CASE v = "3" -> "int" [] v = "2.5" -> "float" [] v = "\"s\"" -> "string"]

CompatiblePairs ==
  { <<a, a>> : a \in {"int", "float", "char", "string"} }
    \cup ({"int", "float", "double"} \X {"int", "float", "double"})
    \cup { <<"char", "int">>, <<"int", "char">> }

RightSides ==
  { Null } \cup { Node("Literal", v, <<>>, [line |-> 1, column |-> 5]) : v \in DOMAIN LiteralTypes }
           \cup { Node("Identifier", n, <<>>, [line |-> 1, column |-> 5]) : n \in {"Y", "W"} }

AssignmentOf(name, rightSide) ==
  Node("Assignment", NoValue,
       <<Node("Identifier", name, <<>>, [line |-> 1, column |-> 1])>>
         \o (IF rightSide = Null THEN <<>> ELSE <<rightSide>>),
       NoPosition)

\* The state st with the usage record of name set used and initialized.
MarkedUsedAndInitialized(st, name) ==
  [st EXCEPT !.variableUsage =
     [k \in 1..Len(st.variableUsage) |->
        IF st.variableUsage[k].name = name
        THEN [st.variableUsage[k] EXCEPT !.used = TRUE, !.initialized = TRUE]
        ELSE st.variableUsage[k]]]

\* What handleAssignment has to do with node from the state st.
AssignmentAnalyzed(node, st) ==
  LET name      == TargetOf(node)
      line      == lineOf(childAt(node, 0))
      rightSide == childAt(node, 1)
      symbol    == findSymbolInScope(st, name)
      after     == handleAssignment(node, st)
  IN  IF symbol = NoSymbol
      THEN after = [st EXCEPT !.errors = Append(st.errors, UndeclaredAssignmentText(line, name))]
      ELSE /\ UsedIn(after, name)
           /\ Initialized(after, name)
           /\ LET marked   == MarkedUsedAndInitialized(st, name)
                  analyzed == IF rightSide = Null THEN marked ELSE analyzeNode(rightSide, marked)
                  mismatch == /\ rightSide # Null
                              /\ rightSide.type = "Literal"
                              /\ rightSide.value \in DOMAIN LiteralTypes
                              /\ <<symbol.type, LiteralTypes[rightSide.value]>> \notin CompatiblePairs
              IN  after =
                    IF mismatch
                    THEN [analyzed EXCEPT !.errors =
                            Append(@, AssignMismatchText(line, LiteralTypes[rightSide.value],
                                                         symbol.type, name))]
                    ELSE analyzed

IsWholeAssignment(node) ==
  /\ node.type = "Assignment"
  /\ Len(node.children) >= 1
  /\ Len(node.children) = 2 =>
       (node.children[2].type = "Literal" => node.children[2].value \in DOMAIN LiteralTypes)

C19_AssignmentAnalysis ==
  /\ (anPhase = "running" /\ anChild = Len(ast.children) /\ anChild <= MaxProbedStatements) =>
       \A n \in AnalyzerNames, rightSide \in RightSides :
         AssignmentAnalyzed(AssignmentOf(n, rightSide), analyzer)
  /\ (HasNextChild /\ IsWholeAssignment(NextChild)) => AssignmentAnalyzed(NextChild, analyzer)
  /\ (anPhase = "done" /\ source = "int Y;\nY = \"s\";") =>
       anResult.errors = <<AssignMismatchText(2, "string", "int", "Y")>>

\* analyze returned for `Y = "s";` after a declaration of Y without
\* initializer: one type-mismatch diagnostic, Y marked used and initialized.
C19_Witness ==
  /\ anPhase = "done"
  /\ source = "int Y;\nY = \"s\";"
  /\ anResult.errors = <<AssignMismatchText(2, "string", "int", "Y")>>
  /\ UsedIn(analyzer, "Y")
  /\ Initialized(analyzer, "Y")

(***************************************************************************)
(* C20  Name resolution is first-match-in-chain: a lookup returns the      *)
(* entry of the innermost enclosing scope that declares the name, so an    *)
(* inner declaration shadows an outer one, and a name declared only in a   *)
(* sibling or already-exited scope is never returned.  Between two         *)
(* top-level statements every if/while is exited and the chain is 'global' *)
(* alone: a lookup finds a top-level declaration or nothing.  Inside an if *)
(* entered from there, a name declared in it resolves to that declaration. *)
(***************************************************************************)
\* The lines of the Declarations of name among the first k top-level children.
TopLevelDeclarationLines(name, k) ==
  { lineOf(childAt(ast.children[i], 0)) :
      i \in { j \in 1..k : /\ ast.children[j].type = "Declaration"
                           /\ childAt(ast.children[j], 0) # Null
                           /\ TargetOf(ast.children[j]) = name } }

\* The state inside an if entered now in which name gets declared on line.
DeclaredInsideIf(name, line) ==
  handleDeclaration(
    Node("Declaration", "int",
         <<Node("Identifier", name, <<>>, [line |-> line, column |-> 5])>>, NoPosition),
    enterScope([analyzer EXCEPT !.clock = <<now>>], "if"))

C20_FirstMatchInChain ==
  anPhase = "running" =>
    \A n \in AnalyzerNames :
      /\ LET found == findSymbolInScope(analyzer, n)
         IN  IF DeclaredAtTopLevel(n, anChild)
             THEN found # NoSymbol /\ found.line \in TopLevelDeclarationLines(n, anChild)
             ELSE found = NoSymbol
      /\ LET inside == DeclaredInsideIf(n, MaxLines + 2)
             found  == findSymbolInScope(inside, n)
         IN  found # NoSymbol /\ found.line = MaxLines + 2 /\ found.scope = inside.currentScope

(***************************************************************************)
(* C21  Binary-expression type checking: once both operands are analyzed,  *)
(* an operand's type is the declared type of a resolved identifier, the    *)
(* inferred type of a literal, and 'unknown' otherwise (unresolved         *)
(* identifier, nested expression); a type-mismatch diagnostic is appended  *)
(* if and only if the rule fails: + - * / % need both types in {int,       *)
(* float, double, char}, comparisons need compatible types, && and || are  *)
(* always accepted.  Checked after every source of fewer than              *)
(* MaxProbedStatements statements, for each operator of ProbedOperators    *)
(* and each pair of operands of ProbedOperands.                            *)
(***************************************************************************)
TypeNames == {"int", "float", "double", "char", "string", "bool", "unknown"}

\* compatible(T1, T2) as stated.
CompatibleRule(type1, type2) ==
  \/ type1 = type2
  \/ type1 \in {"int", "float", "double"} /\ type2 \in {"int", "float", "double"}
  \/ {type1, type2} = {"char", "int"}

\* The operator/operand rule as stated.
OperationRule(type1, type2, operator) ==
  IF operator \in {"+", "-", "*", "/", "%"}
  THEN type1 \in {"int", "float", "double", "char"} /\ type2 \in {"int", "float", "double", "char"}
  ELSE IF operator \in {"==", "!=", "<", ">", "<=", ">="} THEN CompatibleRule(type1, type2)
  ELSE operator \in {"&&", "||"}

OperationMismatchText(line, operator, leftType, rightType) ==
  "Line " \o ToString(line) \o ": Type mismatch in " \o operator \o " operation between "
    \o leftType \o " and " \o rightType

ProbedOperators == {"*", "<", "&&"}

ProbedOperands ==
  { Node("Literal", v, <<>>, [line |-> 1, column |-> 1]) : v \in {"3", "\"s\""} }
    \cup { Node("Identifier", n, <<>>, [line |-> 1, column |-> 1]) : n \in {"Y", "W"} }
    \cup { Node("BinaryExpression", "*",
                <<Node("Literal", "1", <<>>, [line |-> 1, column |-> 2]),
                  Node("Literal", "2", <<>>, [line |-> 1, column |-> 6])>>, NoPosition) }

\* The type of an operand as stated, in the state st.
StatedOperandType(operand, st) ==
  IF operand.type = "Identifier" /\ findSymbolInScope(st, operand.value) # NoSymbol
  THEN findSymbolInScope(st, operand.value).type
  ELSE IF operand.type = "Literal" /\ operand.value \in DOMAIN LiteralTypes
  THEN LiteralTypes[operand.value]
  ELSE "unknown"

BinaryAnalyzed(node, st) ==
  LET operandsDone == analyzeChildren(node.children, 1, st)
      leftType     == StatedOperandType(node.children[1], operandsDone)
      rightType    == StatedOperandType(node.children[2], operandsDone)
      after        == handleBinaryExpression(node, st)
  IN  after =
        IF OperationRule(leftType, rightType, node.value) THEN operandsDone
        ELSE [operandsDone EXCEPT !.errors =
                Append(@, OperationMismatchText(1, node.value, leftType, rightType))]

C21_BinaryTypeCheck ==
  (anPhase = "running" /\ anChild = Len(ast.children) /\ anChild < MaxProbedStatements) =>
    \A operator \in ProbedOperators, left \in ProbedOperands, right \in ProbedOperands :
      BinaryAnalyzed(Node("BinaryExpression", operator, <<left, right>>, NoPosition), analyzer)

(***************************************************************************)
(* C21 as the code has it: an operand that is neither an identifier nor a  *)
(* literal (a nested expression) gets no type, and then no check is made   *)
(* and no diagnostic appended; with two operands that are identifiers or   *)
(* literals the diagnostic is appended if and only if the rule fails.      *)
(***************************************************************************)
IsLeafOperand(operand) == operand.type \in {"Identifier", "Literal"}

BinaryAnalyzedSkippingNested(node, st) ==
  IF IsLeafOperand(node.children[1]) /\ IsLeafOperand(node.children[2])
  THEN BinaryAnalyzed(node, st)
  ELSE handleBinaryExpression(node, st) = analyzeChildren(node.children, 1, st)

C21_BinaryTypeCheckSkipsNested ==
  /\ (anPhase = "running" /\ anChild = Len(ast.children) /\ anChild < MaxProbedStatements) =>
       \A operator \in ProbedOperators, left \in ProbedOperands, right \in ProbedOperands :
         BinaryAnalyzedSkippingNested(
           Node("BinaryExpression", operator, <<left, right>>, NoPosition), analyzer)
  /\ (anPhase = "done" /\ source = "int Y = 1;\nY = (1 * 2) * 3;") => anResult.errors = <<>>
  /\ (anPhase = "done" /\ source = "int Y = 1;\nY = W * 3;") =>
       anResult.errors = <<UndeclaredUseText(2, "W"),
                           OperationMismatchText(2, "*", "unknown", "int")>>
  /\ (anPhase = "done" /\ source = "int Y = 1;\nY = Y * \"s\";") =>
       anResult.errors = <<OperationMismatchText(2, "*", "int", "string")>>

\* analyze returned without diagnostic for the product of a nested product
\* and a literal.
C21_Witness ==
  /\ anPhase = "done"
  /\ source = "int Y = 1;\nY = (1 * 2) * 3;"
  /\ IsBinary(ast.children[2].children[2], "*")
  /\ IsBinary(ast.children[2].children[2].children[1], "*")
  /\ anResult.errors = <<>>

(***************************************************************************)
(* isCompatible called on pairs of type names.  The function is private    *)
(* and synchronous; each call is one action and its arguments and value    *)
(* are logged in typeCalls.                                                *)
(***************************************************************************)
MaxCompatibleCalls == 2

TypesInit ==
  /\ source = ""
  /\ ast = EmptyProgram
  /\ ParserIdle
  /\ AnalyzerIdle
  /\ GeneratorIdle
  /\ AppIdle
  /\ LexerIdle
  /\ AuxIdle

\* this.isCompatible(type1, type2)
IsCompatibleCall ==
  /\ Len(typeCalls) < MaxCompatibleCalls
  /\ \E type1 \in TypeNames, type2 \in TypeNames :
       typeCalls' = Append(typeCalls, [type1 |-> type1, type2 |-> type2,
                                       value |-> isCompatible(type1, type2)])
  /\ UNCHANGED <<source, ast, parserVars, analyzerVars, generatorVars,
                 appVars, lexerVars, heap, handles, runs>>

SpecTypes == TypesInit /\ [][IsCompatibleCall]_vars

(***************************************************************************)
(* C22  compatible(T1, T2) over the type names int, float, double, char,   *)
(* string, bool, unknown is true exactly when T1 = T2, or both are in      *)
(* {int, float, double}, or one is char and the other int; the relation    *)
(* is reflexive, and symmetric: two calls with swapped arguments have the  *)
(* same value.                                                             *)
(***************************************************************************)
C22_CompatibleRelation ==
  /\ \A i \in 1..Len(typeCalls) :
       /\ typeCalls[i].value = CompatibleRule(typeCalls[i].type1, typeCalls[i].type2)
       /\ typeCalls[i].type1 = typeCalls[i].type2 => typeCalls[i].value
  /\ \A i, j \in 1..Len(typeCalls) :
       (typeCalls[i].type1 = typeCalls[j].type2 /\ typeCalls[i].type2 = typeCalls[j].type1)
         => typeCalls[i].value = typeCalls[j].value

C22_Witness ==
  /\ Len(typeCalls) = 2
  /\ typeCalls[1] = [type1 |-> "char", type2 |-> "int", value |-> TRUE]
  /\ typeCalls[2] = [type1 |-> "int", type2 |-> "char", value |-> TRUE]

(***************************************************************************)
(* C23  Two-character operator priority: at any position of a line where  *)
(* the next two characters form one of == != <= >= && || ++ -- += -= *= /= *)
(* << >>, tokenize emits one operator token with that two-character text   *)
(* and advances two columns, never two single-character tokens.  The       *)
(* positions are those the scan reaches: positions inside a token that     *)
(* starts earlier on the line (a comment, a string literal, the operator   *)
(* before) are not scanned.                                                *)
(***************************************************************************)
TwoCharOperators ==
  {"==", "!=", "<=", ">=", "&&", "||", "++", "--", "+=", "-=", "*=", "/=", "<<", ">>"}

\* The indices of the tokens of line number l (1-based).
TokensOn(toks, l) == { k \in 1..Len(toks) : toks[k].line = l }

\* Index p (0-based) of line l lies inside a token that starts before it.
Inside(toks, l, p) ==
  \E k \in TokensOn(toks, l) :
    toks[k].column - 1 < p /\ p < toks[k].column - 1 + Len(toks[k].value)

TwoCharAt(toks, line, l, p) ==
  /\ \E k \in TokensOn(toks, l) :
       toks[k] = Token("operator", slice(line, p, p + 2), l, p + 1)
  /\ Cardinality({ k \in TokensOn(toks, l) : toks[k].column = p + 1 }) = 1
  /\ \A k \in TokensOn(toks, l) : toks[k].column # p + 2

C23_TwoCharPriority ==
  \A i \in 1..Len(lexCalls) :
    LET toks  == lexCalls[i].tokens
        lines == split(lexCalls[i].code)
    IN  \A l \in 1..Len(lines) : \A p \in 0..(Len(lines[l]) - 2) :
          (slice(lines[l], p, p + 2) \in TwoCharOperators /\ ~Inside(toks, l, p))
            => TwoCharAt(toks, lines[l], l, p)

\* tokenize returned for a source with all fourteen operators, and for one
\* where == is followed by = and << by =.
C23_Witness ==
  /\ Len(lexCalls) = 2
  /\ lexCalls[1].code = "a==b!=c<=d>=e\n&&||++--\n+=-=*=/=<<>>"
  /\ { lexCalls[1].tokens[k].value : k \in 1..Len(lexCalls[1].tokens) }
       \cap TwoCharOperators = TwoCharOperators
  /\ lexCalls[2].code = "a===b\nx=-1//==\na->b<<=c"
  /\ \E k \in 1..(Len(lexCalls[2].tokens) - 1) :
       /\ lexCalls[2].tokens[k] = Token("operator", "==", 1, 2)
       /\ lexCalls[2].tokens[k + 1] = Token("operator", "=", 1, 4)

(***************************************************************************)
(* C24  Token order and positions: the tokens returned by tokenize are in  *)
(* strictly increasing (line, column) order, lines and columns are         *)
(* 1-based, and each token's column is the 1-based index in its line of    *)
(* the first character of the token's text, the text being the source      *)
(* substring starting there; also for string literals with escape pairs    *)
(* and for string literals closed at the end of the line.                  *)
(***************************************************************************)
\* Token t is the text of the source at its line and column.
AtItsPosition(t, lines) ==
  /\ t.line \in 1..Len(lines)
  /\ t.column \in 1..Len(lines[t.line])
  /\ Len(t.value) >= 1
  /\ t.value = slice(lines[t.line], t.column - 1, t.column - 1 + Len(t.value))

Precedes(t, u) == t.line < u.line \/ (t.line = u.line /\ t.column < u.column)

C24_TokenOrderAndPositions ==
  \A i \in 1..Len(lexCalls) :
    LET toks  == lexCalls[i].tokens
        lines == split(lexCalls[i].code)
    IN  /\ \A k \in 1..Len(toks) : AtItsPosition(toks[k], lines)
        /\ \A k \in 1..(Len(toks) - 1) : Precedes(toks[k], toks[k + 1])

\* tokenize returned for a source with an escape pair in a closed literal
\* and a literal closed by the end of the line, and for one whose literal
\* is closed by the end of the first line.
C24_Witness ==
  /\ Len(lexCalls) = 2
  /\ lexCalls[1].code = "\"a\\\\\" z \"\\"
  /\ lexCalls[1].tokens = << Token("literal", "\"a\\\\\"", 1, 1),
                             Token("identifier", "z", 1, 7),
                             Token("literal", "\"\\", 1, 9) >>
  /\ lexCalls[2].code = "x = \"ab\ny"
  /\ lexCalls[2].tokens = << Token("identifier", "x", 1, 1),
                             Token("operator", "=", 1, 3),
                             Token("literal", "\"ab", 1, 5),
                             Token("identifier", "y", 2, 1) >>

(***************************************************************************)
(* C25  Unterminated string literal: when a line has an opening double     *)
(* quote with no later unescaped closing quote on the same line, tokenize  *)
(* emits one literal token whose text runs from the opening quote to the   *)
(* end of the line, raises no error, and continues with the next line; a   *)
(* backslash followed by any character is copied as a pair and never ends  *)
(* the literal.  A quote is unescaped when the backslashes directly before *)
(* it, back to the opening quote, pair up (their number is even).          *)
(***************************************************************************)
\* The number of consecutive backslashes directly before index q, after open.
backslashesBefore(line, q, open) ==
  CHOOSE n \in 0..(q - open - 1) :
    /\ \A j \in (q - n)..(q - 1) : charAt(line, j) = "\\"
    /\ n = q - open - 1 \/ charAt(line, q - n - 1) # "\\"

\* The indices of the unescaped quotes after the opening quote at index open.
ClosingQuotes(line, open) ==
  { q \in (open + 1)..(Len(line) - 1) :
      charAt(line, q) = "\"" /\ backslashesBefore(line, q, open) % 2 = 0 }

\* Index p of line l is a character of some token.
Covered(toks, l, p) ==
  \E k \in TokensOn(toks, l) :
    toks[k].column - 1 <= p /\ p < toks[k].column - 1 + Len(toks[k].value)

TokenCharacters == IdentPart \cup {"\""} \cup { c \in OPERATORS \cup DELIMITERS : Len(c) = 1 }

\* Every line after line l is tokenized: each of its token characters is in a token.
TokenizedAfter(toks, lines, l) ==
  \A m \in (l + 1)..Len(lines) : \A p \in 0..(Len(lines[m]) - 1) :
    charAt(lines[m], p) \in TokenCharacters => Covered(toks, m, p)

IsStringLiteral(t) == t.type = "literal" /\ charAt(t.value, 0) = "\""

\* The literal that opens at token t: closed by the first unescaped quote,
\* or else by the end of the line.
StringLiteralExtent(toks, lines, t) ==
  LET line    == lines[t.line]
      open    == t.column - 1
      closing == ClosingQuotes(line, open)
  IN  /\ charAt(line, open) = "\""
      /\ IF closing = {}
         THEN /\ t.value = sliceFrom(line, open)
              /\ \A k \in TokensOn(toks, t.line) : toks[k].column <= t.column
              /\ TokenizedAfter(toks, lines, t.line)
         ELSE \E q \in closing :
                /\ \A r \in closing : q <= r
                /\ t.value = slice(line, open, q + 1)

C25_UnterminatedString ==
  \A i \in 1..Len(lexCalls) :
    LET toks  == lexCalls[i].tokens
        lines == split(lexCalls[i].code)
    IN  /\ \A l \in 1..Len(lines) : \A p \in 0..(Len(lines[l]) - 1) :
              charAt(lines[l], p) = "\""
                => \E k \in TokensOn(toks, l) :
                     /\ toks[k].column - 1 <= p
                     /\ p < toks[k].column - 1 + Len(toks[k].value)
                     /\ IsStringLiteral(toks[k]) \/ toks[k].type = "comment"
        /\ \A k \in 1..Len(toks) :
              IsStringLiteral(toks[k]) => StringLiteralExtent(toks, lines, toks[k])

\* tokenize returned for a source whose first line opens a literal, holds
\* an escaped quote and no closing quote, and whose second line has tokens.
C25_Witness ==
  /\ Len(lexCalls) = 1
  /\ lexCalls[1].code = "\"a\\\"b\nint y"
  /\ lexCalls[1].tokens = << Token("literal", "\"a\\\"b", 1, 1),
                             Token("keyword", "int", 2, 1),
                             Token("identifier", "y", 2, 5) >>

(***************************************************************************)
(* C26  Numeric literal scanning is greedy over digits and '.': a maximal  *)
(* run that starts with a digit and consists of digits and '.' becomes     *)
(* exactly one literal token, so 1.2.3 is one token with text 1.2.3, and   *)
(* the type the analyzer infers for a text with more than one '.' is       *)
(* 'unknown'.  The runs are those the scan reaches: a run that begins      *)
(* inside a token that starts earlier (an identifier, a string literal, a  *)
(* comment) is not scanned.                                                *)
(***************************************************************************)
NumberChars == Digits \cup {"."}

RunStartsAt(line, p) ==
  /\ charAt(line, p) \in Digits
  /\ p = 0 \/ charAt(line, p - 1) \notin NumberChars

\* The index after the last character of the run that starts at p.
RunEnd(line, p) ==
  CHOOSE e \in (p + 1)..Len(line) :
    /\ \A j \in p..(e - 1) : charAt(line, j) \in NumberChars
    /\ e = Len(line) \/ charAt(line, e) \notin NumberChars

Points(value) == Cardinality({ j \in 0..(Len(value) - 1) : charAt(value, j) = "." })

OneLiteral(toks, line, l, p, e) ==
  /\ \E k \in TokensOn(toks, l) : toks[k] = Token("literal", slice(line, p, e), l, p + 1)
  /\ \A k \in TokensOn(toks, l) : toks[k].column \notin (p + 2)..e
  /\ Points(slice(line, p, e)) >= 2 => inferType(slice(line, p, e)) = "unknown"

C26_GreedyNumber ==
  \A i \in 1..Len(lexCalls) :
    LET toks  == lexCalls[i].tokens
        lines == split(lexCalls[i].code)
    IN  \A l \in 1..Len(lines) : \A p \in 0..(Len(lines[l]) - 1) :
          (RunStartsAt(lines[l], p) /\ ~Inside(toks, l, p))
            => OneLiteral(toks, lines[l], l, p, RunEnd(lines[l], p))

\* tokenize returned for a source with 1.2.3, and for one with 1..2.
C26_Witness ==
  /\ Len(lexCalls) = 2
  /\ lexCalls[1].code = "x = 1.2.3;"
  /\ lexCalls[1].tokens = << Token("identifier", "x", 1, 1),
                             Token("operator", "=", 1, 3),
                             Token("literal", "1.2.3", 1, 5),
                             Token("delimiter", ";", 1, 10) >>
  /\ inferType(lexCalls[1].tokens[3].value) = "unknown"
  /\ lexCalls[2].code = "a1.5 .5 1..2 7."
  /\ \E k \in 1..Len(lexCalls[2].tokens) :
       lexCalls[2].tokens[k] = Token("literal", "1..2", 1, 9)

(***************************************************************************)
(* C27  IR definition-before-use: in every instruction list returned by    *)
(* generate, each operand of the form t<k> is the result of exactly one    *)
(* earlier instruction of the list, and the instructions of a              *)
(* BinaryExpression's left operand precede those of its right operand,     *)
(* which precede the instruction of the expression itself (post-order).    *)
(***************************************************************************)
IsTemporaryName(s) == Len(s) >= 2 /\ charAt(s, 0) = "t" /\ allIn(sliceFrom(s, 1), Digits)

\* The indices before k of the instructions whose result is name.
DefinitionsBefore(code, k, name) == { j \in 1..(k - 1) : code[j].result = name }

DefinedOnceBefore(code, k, operand) ==
  IsTemporaryName(operand) => Cardinality(DefinitionsBefore(code, k, operand)) = 1

\* Instruction k of code comes after the instructions of its operands, the
\* left operand's before the right operand's.
PostOrder(code, k) ==
  \A j1 \in DefinitionsBefore(code, k, code[k].operand1) :
    \A j2 \in DefinitionsBefore(code, k, code[k].operand2) :
      (IsTemporaryName(code[k].operand1) /\ IsTemporaryName(code[k].operand2)) => j1 < j2

DefinitionBeforeUse(code) ==
  /\ \A k \in 1..Len(code) :
       /\ DefinedOnceBefore(code, k, code[k].operand1)
       /\ DefinedOnceBefore(code, k, code[k].operand2)
       /\ PostOrder(code, k)
  /\ operationsOf(code) = expectedOperations(ast)

C27_DefinitionBeforeUse == genPhase = "done" => DefinitionBeforeUse(genResult)

\* The names of the Identifier nodes of a tree.
RECURSIVE identifierNames(_)
identifierNames(node) ==
  (IF node.type = "Identifier" THEN {node.value} ELSE {})
    \cup UNION { identifierNames(node.children[i]) : i \in 1..Len(node.children) }

\* The property holds for the sources none of whose identifiers is named
\* like a temporary.
DefinitionBeforeUseOfOtherNames ==
  (genPhase = "done" /\ \A n \in identifierNames(ast) : ~IsTemporaryName(n))
    => DefinitionBeforeUse(genResult)

\* generate returned for a source whose variable t0 is an operand of the
\* expression that is given the temporary t0.
TemporaryNameCollision ==
  /\ genPhase = "done"
  /\ source = "int t0 = 1;\nx = t0 * 2;"
  /\ genResult = << Instruction("DECLARE", "int", NoValue, "t0"),
                    Instruction("ASSIGN", "1", NoValue, "t0"),
                    Instruction("*", "t0", "2", "t0"),
                    Instruction("ASSIGN", "t0", NoValue, "x") >>

(***************************************************************************)
(* Two CodeGenerator and two SemanticAnalyzer instances and the arrays     *)
(* they hold.  heap.arrays are the arrays by address; an instance's field  *)
(* holds an address, and generate and analyze return the addresses their   *)
(* fields hold at the return.  generate and analyze are synchronous: a     *)
(* call is one action.  handles logs, for each call, the addresses it      *)
(* returned and what the arrays held at the return.                        *)
(***************************************************************************)
MaxInstanceCalls == 3

Instances == {1, 2}

\* Sources without scopes: their analysis does not read the clock.
InstanceSources == { "int Y = 1;", "Y = 3;\nint W = Y;", "x = a * b;" }

\* The field keeps the array it holds (this.code.length = 0).
newArray_reused(arrays, held) == held

\* `[]`: the address of a new array, whatever array the field held
newArray(arrays, held) == Len(arrays) + 1

\* The arrays after the array at address a has been filled with content.
store(arrays, a, content) ==
  IF a > Len(arrays) THEN Append(arrays, content) ELSE [arrays EXCEPT ![a] = content]

\* The field initializers of two instances of each class: six empty arrays.
InstancesInit ==
  /\ source = ""
  /\ ast = EmptyProgram
  /\ ParserIdle
  /\ AnalyzerIdle
  /\ GeneratorIdle
  /\ AppIdle
  /\ LexerIdle
  /\ typeCalls = <<>>
  /\ runs = <<>>
  /\ handles = <<>>
  /\ heap = [arrays     |-> [a \in 1..6 |-> <<>>],
             generators |-> [i \in Instances |-> [code |-> i, tempCounter |-> 0]],
             analyzers  |-> [i \in Instances |->
                               [symbolTable |-> 2 * i + 1, errors |-> 2 * i + 2,
                                st |-> NewAnalyzer(<<>>)]]]

\* generator.generate(ast) on instance i, from the entry to the return
GenerateOn ==
  /\ Len(handles) < MaxInstanceCalls
  /\ \E i \in Instances, src \in InstanceSources :
       LET a == newArray(heap.arrays, heap.generators[i].code)
           returned(g) ==
             /\ heap' = [heap EXCEPT !.arrays = store(@, a, g.code),
                                     !.generators[i] =
                                        [code |-> a, tempCounter |-> g.tempCounter]]
             /\ handles' = Append(handles, [kind |-> "generate", instance |-> i,
                                            arrays |-> <<a>>, values |-> <<g.code>>])
       IN  returned(generate(parse(tokenize(src)),
                             [code |-> heap.arrays[heap.generators[i].code],
                              tempCounter |-> heap.generators[i].tempCounter]))
  /\ UNCHANGED <<source, ast, parserVars, analyzerVars, generatorVars, appVars,
                 lexerVars, typeCalls, runs>>

\* analyzer.analyze(ast) on instance i, from the entry to the return
AnalyzeOn ==
  /\ Len(handles) < MaxInstanceCalls
  /\ \E i \in Instances, src \in InstanceSources :
       LET a1 == newArray(heap.arrays, heap.analyzers[i].symbolTable)
           a2 == newArray(store(heap.arrays, a1, <<>>), heap.analyzers[i].errors)
           returned(st) ==
             /\ heap' = [heap EXCEPT !.arrays = store(store(@, a1, st.symbolTable),
                                                      a2, st.errors),
                                     !.analyzers[i] =
                                        [symbolTable |-> a1, errors |-> a2, st |-> st]]
             /\ handles' = Append(handles, [kind |-> "analyze", instance |-> i,
                                            arrays |-> <<a1, a2>>,
                                            values |-> <<st.symbolTable, st.errors>>])
       IN  returned(analyze(parse(tokenize(src)), heap.analyzers[i].st))
  /\ UNCHANGED <<source, ast, parserVars, analyzerVars, generatorVars, appVars,
                 lexerVars, typeCalls, runs>>

InstancesNext == GenerateOn \/ AnalyzeOn

SpecInstances == InstancesInit /\ [][InstancesNext]_vars

(***************************************************************************)
(* C28  Results of earlier calls are not disturbed by later calls: the     *)
(* instruction list returned by a generate call, and the symbol table and  *)
(* diagnostic list returned by an analyze call, are left as they were      *)
(* returned by every later generate or analyze call on the same instance,  *)
(* and two distinct instances never affect each other's results.           *)
(***************************************************************************)
C28_EarlierResultsUndisturbed ==
  /\ \A h \in 1..Len(handles) : \A k \in 1..Len(handles[h].arrays) :
       heap.arrays[handles[h].arrays[k]] = handles[h].values[k]
  /\ \A h1, h2 \in 1..Len(handles) :
       h1 # h2 => \A k1 \in 1..Len(handles[h1].arrays), k2 \in 1..Len(handles[h2].arrays) :
                    handles[h1].arrays[k1] # handles[h2].arrays[k2]

\* generate returned instructions on instance 1, analyze returned a
\* diagnostic on instance 1, and generate was then called on instance 1
\* again with another result.
C28_Witness ==
  /\ Len(handles) = 3
  /\ handles[1].kind = "generate" /\ handles[1].instance = 1
  /\ Len(handles[1].values[1]) >= 2
  /\ handles[2].kind = "analyze" /\ handles[2].instance = 1
  /\ Len(handles[2].values[2]) >= 1
  /\ handles[3].kind = "generate" /\ handles[3].instance = 1
  /\ handles[3].values[1] # handles[1].values[1]

(***************************************************************************)
(* C29  Stage progress invariant of a compilation run: in every state      *)
(* reached during runCompilation at most one of the four stages is         *)
(* active, the completed stages are a prefix of (lexing, parsing, semantic *)
(* analysis, code generation), the output of a stage (tokens, AST, symbol  *)
(* table and diagnostics, IR) is published before the stage is marked      *)
(* completed, and when the run ends isCompiling is false.                  *)
(***************************************************************************)
ActiveStages == { i \in 1..4 : stages[i].active }

CompletedStages == { i \in 1..4 : stages[i].completed }

\* The outputs of the stages completed are those computed from the code
\* of the run.
OutputsPublished ==
  /\ 1 \in CompletedStages => ui.tokens = tokenize(run.code)
  /\ 2 \in CompletedStages => ui.ast = parse(tokenize(run.code))
  /\ 3 \in CompletedStages =>
       \E readings \in ClockReadings(enterCount(ui.ast), 1) :
         LET published(st) ==
               ui.symbolTable = st.symbolTable /\ ui.semanticErrors = st.errors
         IN  published(analyze(ui.ast, NewAnalyzer(readings)))
  /\ 4 \in CompletedStages =>
       ui.intermediateCode = generate(ui.ast, [code |-> <<>>, tempCounter |-> 0]).code

C29_StageProgress ==
  /\ Cardinality(ActiveStages) <= 1
  /\ \E n \in 0..4 : CompletedStages = 1..n
  /\ OutputsPublished
  /\ pc \in {"idle", "done"} => ~isCompiling

\* A run has ended with its four stages completed and tokens, a statement,
\* a diagnostic and an instruction published.
C29_Witness ==
  /\ pc = "done"
  /\ CompletedStages = 1..4
  /\ ActiveStages = {}
  /\ ~isCompiling
  /\ Len(ui.tokens) >= 4
  /\ Len(ui.ast.children) >= 1
  /\ Len(ui.semanticErrors) >= 1
  /\ Len(ui.intermediateCode) >= 1

(***************************************************************************)
(* The App with its buttons: Compile (runCompilation, disabled while       *)
(* isCompiling), Reset (resetCompilation, never disabled) and the sample   *)
(* library (handleLoadSample).  runs are the calls of runCompilation made  *)
(* so far: each has its own position in the function, the code of the      *)
(* render it was started from, and its generatedTokens and generatedAst.   *)
(* A call proceeds from one await to the next in one step; nothing cancels *)
(* a call.  afterReset records, for the call, whether resetCompilation ran *)
(* while it was suspended ("reset") and whether it went on to set state    *)
(* after that ("wrote").                                                   *)
(***************************************************************************)
MaxRuns == 2

\* The sources of the sample library, and of SAMPLE_CODE.
LoadableSamples == { "int Y = 1;", "x = a * b;" }

NewRun(code) ==
  [pc |-> "lexing", code |-> code, generatedTokens |-> <<>>, generatedAst |-> Null,
   afterReset |-> "no"]

\* The call at index r resumes after an await and reaches position to.
resumed(r, to) == [r EXCEPT !.pc = to,
                            !.afterReset = IF @ = "no" THEN "no" ELSE "wrote"]

\* resetCompilation found the call suspended in an await.
overtaken(r) == IF r.pc = "done" THEN r ELSE [r EXCEPT !.afterReset = "reset"]

AppRunsInit ==
  /\ source \in LoadableSamples
  /\ ast = EmptyProgram
  /\ ParserIdle
  /\ AnalyzerIdle
  /\ GeneratorIdle
  /\ AppIdle
  /\ LexerIdle
  /\ AuxIdle

\* Compile is clicked (or the effect of the first render runs): up to the
\* first await
CompileClicked ==
  /\ ~isCompiling
  /\ Len(runs) < MaxRuns
  /\ trim(source) # ""
  /\ isCompiling' = TRUE
  /\ stages' = stagesMap(0, 0)
  /\ ui' = NoOutputs
  /\ runs' = Append(runs, NewRun(source))
  /\ UNCHANGED <<pc, run, inputVars, parserVars, analyzerVars, generatorVars,
                 lexerVars, typeCalls, heap, handles>>

\* Stage 1 of a call, after sleep(800)
LexicalAnalysisOf ==
  \E r \in 1..Len(runs) :
    /\ runs[r].pc = "lexing"
    /\ LET lexed(toks) ==
             /\ runs' = [runs EXCEPT ![r] = [resumed(@, "lexed") EXCEPT
                                              !.generatedTokens = toks]]
             /\ ui' = [ui EXCEPT !.tokens = toks]
       IN  lexed(tokenize(runs[r].code))
    /\ stages' = [i \in 1..4 |-> [active |-> FALSE, completed |-> (i - 1 = 0)]]
    /\ UNCHANGED <<pc, run, isCompiling, inputVars, parserVars, analyzerVars,
                   generatorVars, lexerVars, typeCalls, heap, handles>>

AfterStage == <<"lexed", "parsed", "analyzed">>

InStage == <<"parsing", "analyzing", "generating">>

\* A call after sleep(400): stage k becomes active
StageBeginsOf ==
  \E r \in 1..Len(runs), k \in 1..3 :
    /\ runs[r].pc = AfterStage[k]
    /\ runs' = [runs EXCEPT ![r] = resumed(@, InStage[k])]
    /\ stages' = stagesMap(k, k)
    /\ UNCHANGED <<pc, run, ui, isCompiling, inputVars, parserVars, analyzerVars,
                   generatorVars, lexerVars, typeCalls, heap, handles>>

\* Stage 2 of a call, after sleep(800)
SyntaxAnalysisOf ==
  \E r \in 1..Len(runs) :
    /\ runs[r].pc = "parsing"
    /\ LET parsed(root) ==
             /\ runs' = [runs EXCEPT ![r] = [resumed(@, "parsed") EXCEPT
                                              !.generatedAst = root]]
             /\ ui' = [ui EXCEPT !.ast = root]
       IN  parsed(parse(runs[r].generatedTokens))
    /\ stages' = stagesMap(-1, 2)
    /\ UNCHANGED <<pc, run, isCompiling, inputVars, parserVars, analyzerVars,
                   generatorVars, lexerVars, typeCalls, heap, handles>>

\* Stage 3 of a call, after sleep(800)
SemanticAnalysisOf ==
  \E r \in 1..Len(runs) :
    /\ runs[r].pc = "analyzing"
    /\ \E readings \in ClockReadings(enterCount(runs[r].generatedAst), 1) :
         LET published(st) ==
               ui' = [ui EXCEPT !.symbolTable = st.symbolTable,
                                !.semanticErrors = st.errors]
         IN  published(analyze(runs[r].generatedAst, NewAnalyzer(readings)))
    /\ runs' = [runs EXCEPT ![r] = resumed(@, "analyzed")]
    /\ stages' = stagesMap(-1, 3)
    /\ UNCHANGED <<pc, run, isCompiling, inputVars, parserVars, analyzerVars,
                   generatorVars, lexerVars, typeCalls, heap, handles>>

\* Stage 4 of a call, after sleep(800), and the finally block
CodeGenerationOf ==
  \E r \in 1..Len(runs) :
    /\ runs[r].pc = "generating"
    /\ ui' = [ui EXCEPT !.intermediateCode =
                           generate(runs[r].generatedAst,
                                    [code |-> <<>>, tempCounter |-> 0]).code]
    /\ runs' = [runs EXCEPT ![r] = resumed(@, "done")]
    /\ stages' = [i \in 1..4 |-> [active |-> FALSE, completed |-> TRUE]]
    /\ isCompiling' = FALSE
    /\ UNCHANGED <<pc, run, inputVars, parserVars, analyzerVars, generatorVars,
                   lexerVars, typeCalls, heap, handles>>

\* The setters of resetCompilation
resetState ==
  /\ stages' = INITIAL_STAGES
  /\ ui' = NoOutputs
  /\ isCompiling' = FALSE
  /\ runs' = [r \in 1..Len(runs) |-> overtaken(runs[r])]

\* Reset is clicked
ResetCompilation ==
  /\ resetState
  /\ UNCHANGED <<pc, run, inputVars, parserVars, analyzerVars, generatorVars,
                 lexerVars, typeCalls, heap, handles>>

\* A sample is chosen: setCode(sampleCode); resetCompilation()
HandleLoadSample ==
  /\ \E sampleCode \in LoadableSamples : source' = sampleCode
  /\ resetState
  /\ UNCHANGED <<pc, run, ast, parserVars, analyzerVars, generatorVars,
                 lexerVars, typeCalls, heap, handles>>

AppRunsNext ==
  \/ CompileClicked
  \/ LexicalAnalysisOf
  \/ StageBeginsOf
  \/ SyntaxAnalysisOf
  \/ SemanticAnalysisOf
  \/ CodeGenerationOf
  \/ ResetCompilation
  \/ HandleLoadSample

SpecApp == AppRunsInit /\ [][AppRunsNext]_vars

(***************************************************************************)
(* C30  Reset and sample loading versus a compilation in flight: after     *)
(* resetCompilation (or handleLoadSample) has run while runCompilation is  *)
(* suspended in one of its waits, no stage flag and no stage output is set *)
(* again unless a new compilation is started; at most one runCompilation   *)
(* is ever in flight; and every published token list, AST, symbol table    *)
(* and IR was computed from the source text currently in the editor.       *)
(***************************************************************************)
\* No call went on setting state after a reset found it suspended.
NothingSetAfterReset == \A r \in 1..Len(runs) : runs[r].afterReset # "wrote"

AtMostOneInFlight == Cardinality({ r \in 1..Len(runs) : runs[r].pc # "done" }) <= 1

PublishedFromEditor ==
  /\ ui.tokens # <<>> => ui.tokens = tokenize(source)
  /\ ui.ast # Null => ui.ast = parse(tokenize(source))
  /\ ui.symbolTable # <<>> =>
       \E readings \in ClockReadings(enterCount(parse(tokenize(source))), 1) :
         ui.symbolTable = analyze(parse(tokenize(source)), NewAnalyzer(readings)).symbolTable
  /\ ui.intermediateCode # <<>> =>
       ui.intermediateCode
         = generate(parse(tokenize(source)), [code |-> <<>>, tempCounter |-> 0]).code

C30_ResetIsolatesRuns ==
  /\ NothingSetAfterReset
  /\ AtMostOneInFlight
  /\ PublishedFromEditor

\* Reset was clicked during the first wait of a call, no other call was
\* started, and the call has marked its first stage completed and
\* published its tokens.
StateSetAfterReset ==
  /\ Len(runs) = 1
  /\ runs[1].afterReset = "wrote"
  /\ runs[1].pc = "lexed"
  /\ stages[1].completed
  /\ ui.tokens # <<>>
  /\ ~isCompiling

\* Two calls of runCompilation are suspended at once.
TwoRunsInFlight ==
  /\ Len(runs) = 2
  /\ runs[1].pc \notin {"done"}
  /\ runs[2].pc \notin {"done"}

\* The tokens published are those of a source the editor no longer holds.
PublishedFromReplacedSource ==
  /\ Len(runs) = 1
  /\ runs[1].code # source
  /\ ui.tokens = tokenize(runs[1].code)
  /\ ui.tokens # tokenize(source)

=============================================================================
